---- MODULE Spec2Model ----
(***************************************************************************)
(* LogTextCompiler: the parser (src/src/parse.rs) driving the code         *)
(* generator (src/src/code_generation.rs) and the emitter                  *)
(* (src/src/emitter.rs) over the token stream of the lexer                 *)
(* (src/src/lexer.rs).                                                     *)
(*                                                                         *)
(* Text is a sequence of one-character strings.  The source is an input:   *)
(* it is drawn line by line, each line when the lexer first reads into it. *)
(* A panic! ends the run; the state is kept as it was at the panic.        *)
(* The lexer is also run alone, character by character (LexSpec).          *)
(***************************************************************************)
EXTENDS Integers, Sequences, FiniteSets, TLC

VARIABLES
    lexer,           \* Parser.lexer: the unread rest of the source, as tokens
    emitter,         \* Parser.emitter
    code_generator,  \* Parser.code_generator
    tags,            \* Parser.tags
    routines,        \* Parser.routines
    jumps,           \* Parser.jumps
    events,          \* Parser.events
    emitted_events,  \* Parser.emitted_events
    stack,           \* Parser.stack
    main_flag,       \* Parser.main_flag
    previous_token,  \* Parser.previous_token
    current_token,   \* Parser.current_token
    peek_token,      \* Parser.peek_token
    panic,           \* the panic! that ended the run, kind "" while none
    done,            \* Parser::program has returned
    file,            \* the destination of Emitter::write_file: how the
                     \* open went, the calls of write_file and the text
                     \* written to it
    forwarded,       \* history: the calls of CodeGenerator::add_instruction
    task_base,       \* history: Len(routines) when the open task began
    rung_base,       \* history: Len(forwarded) and the length of the code
                     \* block when the last rung began, and the name the
                     \* source gives it
    pending_base,    \* history: Len(forwarded) at the last end_rung
    routine_rungs,   \* history: the rungs begun since the last routine began
    scanner,         \* a Lexer over the characters of a source
    scanned,         \* history: the tokens get_token has returned from it
    profile          \* the class of source being compiled

vars == <<lexer, emitter, code_generator, tags, routines, jumps, events,
          emitted_events, stack, main_flag, previous_token, current_token,
          peek_token, panic, done, file, forwarded, task_base, rung_base,
          pending_base, routine_rungs, scanner, scanned, profile>>

----------------------------------------------------------------------------
(* Bounds of the sources explored.                                         *)

MaxBlank == 1
MaxNestingLines == 9
MaxSymbolLines == 3
MaxRungLines == 4
MaxTaskLines == 7
MaxSourceLen == 4
MaxEofCalls == 2

----------------------------------------------------------------------------
(* Characters and integer parsing.                                         *)

Digits == <<"0", "1", "2", "3", "4", "5", "6", "7", "8", "9">>

is_digit(c) == \E d \in 1..10 : Digits[d] = c

DigitValue(c) == (CHOOSE d \in 1..10 : Digits[d] = c) - 1

ParseErr == -1

RECURSIVE ParseDigits(_, _)
ParseDigits(text, acc) ==
    IF text = <<>> THEN acc
    ELSE IF ~is_digit(Head(text)) THEN ParseErr
    ELSE ParseDigits(Tail(text), acc * 10 + DigitValue(Head(text)))

\* str::parse::<usize>() on the text of a Number token: Err for the empty
\* text and for a text with a character that is not a digit (the '.' of a
\* fraction).  The indexes and lengths of the sources explored have at most
\* two digits, far below the overflow of usize.
ParseUnsigned(text) ==
    IF text = <<>> THEN ParseErr ELSE ParseDigits(text, 0)

\* u32::MAX, as the decimal text str::parse::<u32>() accepts last
U32_MAX == <<"4","2","9","4","9","6","7","2","9","5">>

RECURSIVE StripZeros(_)
StripZeros(text) ==
    IF Len(text) > 1 /\ Head(text) = "0" THEN StripZeros(Tail(text)) ELSE text

\* the value of a text of digits is above u32::MAX (PosOverflow); the texts
\* are compared digit by digit, the value itself is never computed
ExceedsU32(text) ==
    LET t == StripZeros(text)
    IN  \/ Len(t) > Len(U32_MAX)
        \/ /\ Len(t) = Len(U32_MAX)
           /\ \E i \in 1..Len(t) :
                  /\ DigitValue(t[i]) > DigitValue(U32_MAX[i])
                  /\ \A j \in 1..(i - 1) : t[j] = U32_MAX[j]

\* str::parse::<u32>() on the text of a Number token: Err for the empty
\* text, for a text with a character that is not a digit (the '.' of a
\* fraction) and for a value above u32::MAX.
ParseU32(text) ==
    IF text = <<>> THEN ParseErr
    ELSE IF \E i \in 1..Len(text) : ~is_digit(text[i]) THEN ParseErr
    ELSE IF ExceedsU32(text) THEN ParseErr
    ELSE ParseDigits(text, 0)

----------------------------------------------------------------------------
(* Tokens.                                                                 *)

Token(type, text) == [type |-> type, text |-> text]

TokenDefault == Token("Eof", <<>>)

Keyword(type) ==
    CASE type = "Tag"        -> Token(type, <<"T","A","G">>)
      [] type = "Task"       -> Token(type, <<"T","A","S","K">>)
      [] type = "EndTask"    -> Token(type, <<"E","N","D","T","A","S","K">>)
      [] type = "Period"     -> Token(type, <<"P","E","R","I","O","D">>)
      [] type = "Event"      -> Token(type, <<"E","V","E","N","T">>)
      [] type = "Continuous" -> Token(type, <<"C","O","N","T","I","N","U","O","U","S">>)
      [] type = "Routine"    -> Token(type, <<"R","O","U","T","I","N","E">>)
      [] type = "EndRoutine" -> Token(type, <<"E","N","D","R","O","U","T","I","N","E">>)
      [] type = "Rung"       -> Token(type, <<"R","U","N","G">>)
      [] type = "EndRung"    -> Token(type, <<"E","N","D","R","U","N","G">>)
      [] type = "False"      -> Token(type, <<"F","A","L","S","E">>)
      [] type = "True"       -> Token(type, <<"T","R","U","E">>)
      [] type = "Xic"        -> Token(type, <<"X","I","C">>)
      [] type = "Xio"        -> Token(type, <<"X","I","O">>)
      [] type = "Ote"        -> Token(type, <<"O","T","E">>)
      [] type = "Otl"        -> Token(type, <<"O","T","L">>)
      [] type = "Otu"        -> Token(type, <<"O","T","U">>)
      [] type = "Jsr"        -> Token(type, <<"J","S","R">>)
      [] type = "Ret"        -> Token(type, <<"R","E","T">>)
      [] type = "Emit"       -> Token(type, <<"E","M","I","T">>)

Punct(type) ==
    CASE type = "Eq"           -> Token(type, <<"=">>)
      [] type = "OpenAngle"    -> Token(type, <<"<">>)
      [] type = "CloseAngle"   -> Token(type, <<">">>)
      [] type = "OpenBracket"  -> Token(type, <<"[">>)
      [] type = "CloseBracket" -> Token(type, <<"]">>)
      [] type = "Indexer"      -> Token(type, <<".">>)
      [] type = "NewLine"      -> Token(type, <<"\n">>)
      [] type = "Eof"          -> Token(type, <<"\\0">>)

Ident(text) == Token("Identifier", text)
Num(text) == Token("Number", text)
NL == Punct("NewLine")

\* the lexer's panic! in place of a token
LexPanic(message) == Token("panic", <<message>>)

INPUT_INSTRUCTIONS == {"Xic", "Xio"}
OUTPUT_INSTRUCTIONS == {"Ote", "Otl", "Otu", "Jsr", "Ret", "Emit"}

----------------------------------------------------------------------------
(* The run as one record p, threaded through the functions in program      *)
(* order.  A function applied to a run that has panicked, or that needs a  *)
(* source line not drawn yet (starved), returns it unchanged.              *)

NoPanic == [kind |-> "", arg |-> <<>>]

Halted(p) == p.panic.kind # "" \/ p.starved

Panic(p, kind, arg) ==
    IF Halted(p) THEN p ELSE [p EXCEPT !.panic = [kind |-> kind, arg |-> arg]]

----------------------------------------------------------------------------
(* src/lexer.rs, character by character.  A character is a string: an     *)
(* ASCII character is the string of that character, a character outside    *)
(* ASCII is the string of its code point.  source_code.len() counts bytes, *)
(* chars() indexes characters and a str is sliced by bytes; the three      *)
(* agree on an ASCII text only.                                            *)

NUL == Head(<<"\\0">>)

\* a letter outside ASCII: two bytes in UTF-8
E_ACUTE == "U+00E9"

Letters == <<"A","B","C","D","E","F","G","H","I","J","K","L","M","N","O","P","Q","R","S","T","U","V","W","X","Y","Z","a","b","c","d","e","f","g","h","i","j","k","l","m","n","o","p","q","r","s","t","u","v","w","x","y","z">>

\* char::is_alphabetic: the Alphabetic property of Unicode
is_alphabetic(c) == c = E_ACUTE \/ \E i \in 1..Len(Letters) : Letters[i] = c

\* char::len_utf8
len_utf8(c) == IF c = E_ACUTE THEN 2 ELSE 1

\* String::len: the length of the text in bytes
RECURSIVE byte_len(_)
byte_len(text) ==
    IF text = <<>> THEN 0 ELSE len_utf8(Head(text)) + byte_len(Tail(text))

\* what current_character holds when the index into chars() was out of
\* bounds: the panic! of the index
IndexOutOfBounds == "index out of bounds"

\* self.source_code.chars().collect::<Vec<char>>()[index]
char_at(source_code, index) ==
    IF index < Len(source_code) THEN source_code[index + 1]
                                ELSE IndexOutOfBounds

\* what a slice is when one of its ends is inside a character: the panic!
\* of str's Index
NotCharBoundary == <<"byte index is not a char boundary">>

\* &text[from..to]: the ends are byte offsets
str_slice(text, from, to) ==
    LET offset(k) == byte_len(SubSeq(text, 1, k - 1))
        boundary(b) == \E k \in 1..(Len(text) + 1) : offset(k) = b
        char_of(b) == CHOOSE k \in 1..(Len(text) + 1) : offset(k) = b
    IN  IF boundary(from) /\ boundary(to)
            THEN SubSeq(text, char_of(from), char_of(to) - 1)
            ELSE NotCharBoundary

KeywordTypes ==
    {"Tag", "Task", "EndTask", "Period", "Event", "Continuous", "Routine",
     "EndRoutine", "Rung", "EndRung", "False", "True", "Xic", "Xio", "Ote",
     "Otl", "Otu", "Jsr", "Ret", "Emit"}

\* Token::is_keyword: an Option, as [some, value]
is_keyword(token_text) ==
    IF \E k \in KeywordTypes : Keyword(k).text = token_text
        THEN [some |-> TRUE,
              value |-> CHOOSE k \in KeywordTypes :
                            Keyword(k).text = token_text]
        ELSE [some |-> FALSE, value |-> "Eof"]

\* Lexer::new: the end-of-line pushed onto the source
Lexer_new(source_code) ==
    [source_code |-> source_code \o <<"\n">>,
     line_number |-> 1,
     current_character |-> (source_code \o <<"\n">>)[1],
     current_position |-> 0]

next_character(l) ==
    [l EXCEPT !.line_number =
                  IF l.current_character = "\n" THEN @ + 1 ELSE @,
              !.current_position = @ + 1,
              !.current_character =
                  IF l.current_position + 1 >= byte_len(l.source_code)
                      THEN NUL
                      ELSE char_at(l.source_code, l.current_position + 1)]

peek(l) ==
    IF l.current_position + 1 >= byte_len(l.source_code) THEN NUL
    ELSE char_at(l.source_code, l.current_position + 1)

RECURSIVE skip_whitespace(_)
skip_whitespace(l) ==
    IF l.current_character \in {" ", "\t", "\r"}
        THEN skip_whitespace(next_character(l))
        ELSE l

\* skip_comment: while self.current_character != '\n' { next_character() }
\* (an index out of bounds ends the loop with its panic!)
RECURSIVE skip_to_end_of_line(_)
skip_to_end_of_line(l) ==
    IF l.current_character \notin {"\n", IndexOutOfBounds}
        THEN skip_to_end_of_line(next_character(l))
        ELSE l

skip_comment(l) ==
    IF l.current_character = "#" THEN skip_to_end_of_line(l) ELSE l

\* get_token: while self.peek().is_digit(10) { next_character() }
RECURSIVE take_digits(_)
take_digits(l) ==
    IF is_digit(peek(l)) THEN take_digits(next_character(l)) ELSE l

\* get_token: while peek is alphabetic or a digit { next_character() }
RECURSIVE take_word(_)
take_word(l) ==
    IF is_alphabetic(peek(l)) \/ is_digit(peek(l))
        THEN take_word(next_character(l))
        ELSE l

\* &self.source_code[start_position..self.current_position + 1]
text_from(l, start_position) ==
    str_slice(l.source_code, start_position, l.current_position + 1)

panicked(l, kind, arg) ==
    [lexer |-> l, token |-> TokenDefault,
     panic |-> [kind |-> kind, arg |-> arg]]

\* get_token returns the token after the closing next_character, or panics:
\* in the slice that makes the token's text, or in the closing
\* next_character
returned(l, token) ==
    IF token.text = NotCharBoundary
        THEN panicked(l, "byte index is not a char boundary", <<>>)
    ELSE IF next_character(l).current_character = IndexOutOfBounds
        THEN panicked(l, "index out of bounds", <<>>)
    ELSE [lexer |-> next_character(l), token |-> token, panic |-> NoPanic]

\* get_token: the digits after the decimal point
number_fraction(l, start_position) ==
    IF ~is_digit(peek(l))
        THEN panicked(l, "Illegal character in number", <<>>)
        ELSE returned(take_digits(l),
                      Num(text_from(take_digits(l), start_position)))

\* get_token: a number, on the lexer at the last digit before the point
number(l, start_position) ==
    IF peek(l) = "."
        THEN number_fraction(next_character(l), start_position)
        ELSE returned(l, Num(text_from(l, start_position)))

\* get_token: a keyword or an identifier, on the lexer at its last character
word(l, start_position) ==
    returned(l,
             Token(IF is_keyword(text_from(l, start_position)).some
                       THEN is_keyword(text_from(l, start_position)).value
                       ELSE "Identifier",
                   text_from(l, start_position)))

\* get_token: match self.current_character
match_character(l) ==
    CASE l.current_character = "="  -> returned(l, Punct("Eq"))
      [] l.current_character = "<"  -> returned(l, Punct("OpenAngle"))
      [] l.current_character = ">"  -> returned(l, Punct("CloseAngle"))
      [] l.current_character = "["  -> returned(l, Punct("OpenBracket"))
      [] l.current_character = "]"  -> returned(l, Punct("CloseBracket"))
      [] l.current_character = "\n" -> returned(l, Punct("NewLine"))
      [] l.current_character = NUL  -> returned(l, Punct("Eof"))
      [] l.current_character = "."  -> returned(l, Punct("Indexer"))
      [] l.current_character = IndexOutOfBounds ->
             panicked(l, "index out of bounds", <<>>)
      [] OTHER ->
             IF is_digit(l.current_character)
                 THEN number(take_digits(l), l.current_position)
             ELSE IF is_alphabetic(l.current_character)
                 THEN word(take_word(l), l.current_position)
             ELSE panicked(l, "Unknown token", <<l.current_character>>)

\* Lexer::get_token, as [lexer, token, panic]
Lexer_get_token(l) == match_character(skip_comment(skip_whitespace(l)))

----------------------------------------------------------------------------
(* src/lexer.rs, seen from the parser.                                     *)

\* Lexer::get_token: the next token of the source, Eof for ever once the
\* source is exhausted, or the lexer's panic!
get_token(p) ==
    IF Halted(p) THEN [run |-> p, token |-> TokenDefault]
    ELSE IF p.lexer.eof THEN [run |-> p, token |-> Punct("Eof")]
    ELSE IF p.lexer.buf = <<>>
         THEN [run |-> [p EXCEPT !.starved = TRUE], token |-> TokenDefault]
    ELSE LET t == Head(p.lexer.buf)
             q == [p EXCEPT !.lexer.buf = Tail(@)]
         IN  IF t.type = "panic"
                 THEN [run |-> Panic(q, t.text[1], <<>>), token |-> TokenDefault]
             ELSE IF t.type = "Eof"
                 THEN [run |-> [q EXCEPT !.lexer.eof = TRUE], token |-> t]
             ELSE [run |-> q, token |-> t]

----------------------------------------------------------------------------
(* src/emitter.rs                                                          *)

emit(p, chunk) ==
    IF Halted(p) THEN p
    ELSE [p EXCEPT !.emitter.compiled_code = @ \o chunk]

emit_line(p, chunk) ==
    IF Halted(p) THEN p
    ELSE [p EXCEPT !.emitter.compiled_code = @ \o chunk \o <<"\n">>]

\* File::open opens the destination read-only and fails when it is missing;
\* write_all writes nothing for an empty buffer and otherwise fails on the
\* read-only handle
write_file(p, exists) ==
    IF Halted(p) THEN p
    ELSE LET q == [p EXCEPT !.file.writes = @ + 1,
                            !.file.opened = IF exists THEN "ok" ELSE "missing"]
         IN  IF ~exists THEN Panic(q, "Couldn't open", <<>>)
             ELSE IF q.emitter.compiled_code = <<>>
                 THEN [q EXCEPT !.file.written = @ \o q.emitter.compiled_code]
             ELSE Panic(q, "Couldn't write to", <<>>)

----------------------------------------------------------------------------
(* src/code_generation.rs                                                  *)

CodeGeneratorDefault ==
    [current_code_block |-> <<>>,
     indentation_level |-> 0,
     current_rung_name |-> <<>>,
     rung_number |-> 0,
     output_instruction_flag |-> FALSE,
     if_block_instructions |-> <<>>,
     else_block_instructions |-> <<>>]

RECURSIVE Tabs(_)
Tabs(n) == IF n = 0 THEN <<>> ELSE <<"\t">> \o Tabs(n - 1)

\* u32::to_string
RECURSIVE NumberText(_)
NumberText(n) ==
    IF n < 10 THEN <<Digits[n + 1]>>
    ELSE NumberText(n \div 10) \o <<Digits[(n % 10) + 1]>>

add_to_code_block(g, code) ==
    [g EXCEPT !.current_code_block =
                  @ \o Tabs(g.indentation_level) \o code \o <<"\n">>]

\* returns the block and the generator left behind
finish_code_block(g) ==
    LET g1 == add_to_code_block(g, <<"M","a","i","n","(",")">>)
    IN  [code_block |-> SubSeq(g1.current_code_block, 1,
                               Len(g1.current_code_block) - 1),
         generator |-> [g1 EXCEPT !.current_code_block = <<>>,
                                  !.indentation_level = 0]]

start_routine(g, routine_name) ==
    LET g1 == add_to_code_block(g, <<"d","e","f"," ">> \o routine_name \o <<"(",")",":">>)
    IN  [g1 EXCEPT !.indentation_level = @ + 1]

\* variant: rung_number is left as it is
cg_end_routine_keep_count(p) ==
    IF Halted(p) THEN p
    ELSE LET g == p.code_generator
             g1 == IF g.rung_number = 0
                       THEN add_to_code_block(g, <<"p","a","s","s">>) ELSE g
         IN  IF g1.indentation_level = 0
                 THEN Panic(p, "attempt to subtract with overflow", <<>>)
                 ELSE [p EXCEPT !.code_generator =
                           [g1 EXCEPT !.indentation_level = @ - 1]]

\* indentation_level is a usize: the subtraction panics below zero
cg_end_routine(p) ==
    IF Halted(p) THEN p
    ELSE LET g == p.code_generator
             g1 == IF g.rung_number = 0
                       THEN add_to_code_block(g, <<"p","a","s","s">>) ELSE g
         IN  IF g1.indentation_level = 0
                 THEN Panic(p, "attempt to subtract with overflow", <<>>)
                 ELSE [p EXCEPT !.code_generator =
                           [g1 EXCEPT !.indentation_level = @ - 1,
                                      !.rung_number = 0]]

\* variant: rung_number advances for an anonymous rung only
start_rung_anonymous_count(g, rung_name) ==
    LET editted_rung_name ==
            IF rung_name = <<>>
                THEN <<"r","u","n","g","_">> \o NumberText(g.rung_number) \o <<"_","e","n","t","r","y">>
                ELSE <<"r","u","n","g","_">> \o rung_name \o <<"_","e","n","t","r","y">>
        g1 == IF rung_name = <<>> THEN [g EXCEPT !.rung_number = @ + 1] ELSE g
        g2 == add_to_code_block(g1, editted_rung_name \o <<" ","="," ","T","r","u","e">>)
    IN  [g2 EXCEPT !.current_rung_name = editted_rung_name]

start_rung(g, rung_name) ==
    LET editted_rung_name ==
            IF rung_name = <<>>
                THEN <<"r","u","n","g","_">> \o NumberText(g.rung_number) \o <<"_","e","n","t","r","y">>
                ELSE <<"r","u","n","g","_">> \o rung_name \o <<"_","e","n","t","r","y">>
        g1 == [g EXCEPT !.rung_number = @ + 1]
        g2 == add_to_code_block(g1, editted_rung_name \o <<" ","="," ","T","r","u","e">>)
    IN  [g2 EXCEPT !.current_rung_name = editted_rung_name]

\* while let Some(instruction) = list.pop() { add_to_code_block(instruction) }
RECURSIVE DrainIf(_)
DrainIf(g) ==
    IF g.if_block_instructions = <<>> THEN g
    ELSE LET n == Len(g.if_block_instructions)
             instruction == g.if_block_instructions[n]
             g1 == [g EXCEPT !.if_block_instructions = SubSeq(@, 1, n - 1)]
         IN  DrainIf(add_to_code_block(g1, instruction))

RECURSIVE DrainElse(_)
DrainElse(g) ==
    IF g.else_block_instructions = <<>> THEN g
    ELSE LET n == Len(g.else_block_instructions)
             instruction == g.else_block_instructions[n]
             g1 == [g EXCEPT !.else_block_instructions = SubSeq(@, 1, n - 1)]
         IN  DrainElse(add_to_code_block(g1, instruction))

cg_end_rung(g) ==
    LET g1 == IF g.if_block_instructions # <<>>
                  THEN LET a == add_to_code_block(g,
                                    <<"i","f"," ">> \o g.current_rung_name \o <<":">>)
                           b == [a EXCEPT !.indentation_level = @ + 1]
                           c == DrainIf(b)
                       IN  [c EXCEPT !.indentation_level = @ - 1]
                  ELSE g
        g2 == IF g1.else_block_instructions # <<>>
                  THEN LET a == add_to_code_block(g1, <<"e","l","s","e",":">>)
                           b == [a EXCEPT !.indentation_level = @ + 1]
                           c == DrainElse(b)
                       IN  [c EXCEPT !.indentation_level = @ - 1]
                  ELSE g1
    IN  [g2 EXCEPT !.output_instruction_flag = FALSE]

\* variant: the negation on XIC in place of XIO
add_input_instruction_swapped(p, instruction, target) ==
    LET g == p.code_generator
    IN  IF g.output_instruction_flag
            THEN Panic(p, "Input instruction appears after an output instruction",
                       <<instruction>>)
        ELSE IF instruction = "Xio"
            THEN [p EXCEPT !.code_generator =
                      add_to_code_block(g, g.current_rung_name \o <<" ","&","="," ">> \o target)]
        ELSE [p EXCEPT !.code_generator =
                  add_to_code_block(g, g.current_rung_name \o <<" ","&","="," ","n","o","t"," ">> \o target)]

\* variant: no look at output_instruction_flag
add_input_instruction_unchecked(p, instruction, target) ==
    LET g == p.code_generator
    IN  IF instruction = "Xic"
            THEN [p EXCEPT !.code_generator =
                      add_to_code_block(g, g.current_rung_name \o <<" ","&","="," ">> \o target)]
        ELSE [p EXCEPT !.code_generator =
                  add_to_code_block(g, g.current_rung_name \o <<" ","&","="," ","n","o","t"," ">> \o target)]

add_input_instruction(p, instruction, target) ==
    LET g == p.code_generator
    IN  IF g.output_instruction_flag
            THEN Panic(p, "Input instruction appears after an output instruction",
                       <<instruction>>)
        ELSE IF instruction = "Xic"
            THEN [p EXCEPT !.code_generator =
                      add_to_code_block(g, g.current_rung_name \o <<" ","&","="," ">> \o target)]
        ELSE [p EXCEPT !.code_generator =
                  add_to_code_block(g, g.current_rung_name \o <<" ","&","="," ","n","o","t"," ">> \o target)]

\* variant: Vec::push in place of Vec::insert(0, ..)
add_output_instruction_back(p, instruction, target) ==
    LET g == p.code_generator
        if_line ==
            CASE instruction = "Ret"  -> <<"r","e","t","u","r","n">>
              [] instruction = "Jsr"  -> target \o <<"(",")">>
              [] instruction = "Otl"  -> target \o <<" ","="," ","T","r","u","e">>
              [] instruction = "Otu"  -> target \o <<" ","="," ","F","a","l","s","e">>
              [] instruction = "Ote"  -> target \o <<" ","="," ","T","r","u","e">>
              [] instruction = "Emit" -> <<"E","m","i","t","E","v","e","n","t","(","'">> \o target \o <<"'",")">>
        g1 == [g EXCEPT !.if_block_instructions = @ \o <<if_line>>]
        g2 == IF instruction = "Ote"
                  THEN [g1 EXCEPT !.else_block_instructions =
                                      @ \o <<target \o <<" ","="," ","F","a","l","s","e">>>>]
                  ELSE g1
    IN  [p EXCEPT !.code_generator =
             [g2 EXCEPT !.output_instruction_flag = TRUE]]

add_output_instruction(p, instruction, target) ==
    LET g == p.code_generator
        if_line ==
            CASE instruction = "Ret"  -> <<"r","e","t","u","r","n">>
              [] instruction = "Jsr"  -> target \o <<"(",")">>
              [] instruction = "Otl"  -> target \o <<" ","="," ","T","r","u","e">>
              [] instruction = "Otu"  -> target \o <<" ","="," ","F","a","l","s","e">>
              [] instruction = "Ote"  -> target \o <<" ","="," ","T","r","u","e">>
              [] instruction = "Emit" -> <<"E","m","i","t","E","v","e","n","t","(","'">> \o target \o <<"'",")">>
        g1 == [g EXCEPT !.if_block_instructions = <<if_line>> \o @]
        g2 == IF instruction = "Ote"
                  THEN [g1 EXCEPT !.else_block_instructions =
                                      <<target \o <<" ","="," ","F","a","l","s","e">>>> \o @]
                  ELSE g1
    IN  [p EXCEPT !.code_generator =
             [g2 EXCEPT !.output_instruction_flag = TRUE]]

add_instruction(p, instruction, target) ==
    IF Halted(p) THEN p
    ELSE LET q == [p EXCEPT !.forwarded =
                       Append(@, [instruction |-> instruction,
                                  target |-> target])]
         IN  IF instruction \in INPUT_INSTRUCTIONS
                 THEN add_input_instruction(q, instruction, target)
             ELSE IF instruction \in OUTPUT_INSTRUCTIONS
                 THEN add_output_instruction(q, instruction, target)
             ELSE Panic(q, "Invalid instruction", <<instruction>>)

----------------------------------------------------------------------------
(* src/parse.rs                                                            *)

check_token(p, token_type) == token_type = p.current_token.type

next_token(p) ==
    IF Halted(p) THEN p
    ELSE LET q == [p EXCEPT !.previous_token = p.current_token,
                            !.current_token = p.peek_token]
             r == get_token(q)
         IN  IF Halted(r.run) THEN r.run
             ELSE [r.run EXCEPT !.peek_token = r.token]

match_token(p, token_type) ==
    IF Halted(p) THEN p
    ELSE IF ~check_token(p, token_type)
        THEN Panic(p, "Expected", <<token_type, p.current_token.type>>)
    ELSE next_token(p)

\* self.stack.last().unwrap_or(&TokenType::Eof)
\* variant: reads the outermost marker, not the innermost
stack_last_first(s) == IF s = <<>> THEN "Eof" ELSE s[1]

stack_last(s) == IF s = <<>> THEN "Eof" ELSE s[Len(s)]

\* self.stack.pop(): the popped marker (None for the empty stack) and the rest
stack_pop(s) ==
    IF s = <<>> THEN [popped |-> "None", rest |-> s]
    ELSE [popped |-> s[Len(s)], rest |-> SubSeq(s, 1, Len(s) - 1)]

\* variant: a name that is not in the table is taken for a scalar tag
find_tag_or_default(t, target) ==
    IF \E i \in 1..Len(t) : t[i].name = target
        THEN [some |-> TRUE,
              value |-> t[CHOOSE i \in 1..Len(t) :
                             /\ t[i].name = target
                             /\ \A j \in 1..(i - 1) : t[j].name # target]]
        ELSE [some |-> TRUE, value |-> [name |-> target, length |-> 0]]

\* variant: the last descriptor of the name, not the first
find_tag_last(t, target) ==
    IF \E i \in 1..Len(t) : t[i].name = target
        THEN [some |-> TRUE,
              value |-> t[CHOOSE i \in 1..Len(t) :
                             /\ t[i].name = target
                             /\ \A j \in (i + 1)..Len(t) : t[j].name # target]]
        ELSE [some |-> FALSE, value |-> [name |-> target, length |-> 0]]

\* self.tags.iter().find(|&item| item.name == target): Some of the first
\* descriptor of that name in declaration order, or None
find_tag(t, target) ==
    IF \E i \in 1..Len(t) : t[i].name = target
        THEN [some |-> TRUE,
              value |-> t[CHOOSE i \in 1..Len(t) :
                             /\ t[i].name = target
                             /\ \A j \in 1..(i - 1) : t[j].name # target]]
        ELSE [some |-> FALSE, value |-> [name |-> target, length |-> 0]]

PERIOD_LOWER_BOUND == 20
TAG_CHARACTER_LIMIT == 7

\* variant: the index equal to the length passes
index_out_of_bounds_above(index, length) == index > length

\* the bound check of a tag array index
index_out_of_bounds(index, length) == index >= length

\* variant: a name of exactly the limit is rejected
name_too_long_at_limit(name) == Len(name) >= TAG_CHARACTER_LIMIT

\* the check of the character limit of a tag name
name_too_long(name) == Len(name) > TAG_CHARACTER_LIMIT

\* self.emitter.emit(self.previous_token.get_text())
emit_previous(p) == emit(p, p.previous_token.text)

\* self.emitter.emit_line(self.previous_token.get_text())
emit_line_previous(p) == emit_line(p, p.previous_token.text)

\* variant: the limit itself is refused as well
period_bound_inclusive(p) ==
    IF Halted(p) THEN p
    ELSE LET period == ParseU32(p.previous_token.text)
         IN  IF period = ParseErr
                 THEN Panic(p, "called Result::unwrap() on an Err value",
                            p.previous_token.text)
             ELSE IF period <= PERIOD_LOWER_BOUND
                 THEN Panic(p, "Period below allowable limit", <<>>)
             ELSE p

\* period_type: the unwrap of the parsed period and its lower bound
period_bound(p) ==
    IF Halted(p) THEN p
    ELSE LET period == ParseU32(p.previous_token.text)
         IN  IF period = ParseErr
                 THEN Panic(p, "called Result::unwrap() on an Err value",
                            p.previous_token.text)
             ELSE IF period < PERIOD_LOWER_BOUND
                 THEN Panic(p, "Period below allowable limit", <<>>)
             ELSE p

period_type(p) ==
    period_bound(
        emit_previous(
            match_token(
                match_token(emit(match_token(p, "Period"), <<"P","E","R","I","O","D"," ">>), "Eq"),
                "Number")))

\* event_type: self.events.push(..)
events_push(p) ==
    IF Halted(p) THEN p
    ELSE [p EXCEPT !.events = Append(@, p.previous_token.text)]

event_type(p) ==
    events_push(
        emit_previous(
            match_token(
                match_token(emit(match_token(p, "Event"), <<"E","V","E","N","T"," ">>), "Eq"),
                "Identifier")))

\* task_type: the clause between the angle brackets
task_type_clause(p) ==
    IF Halted(p) THEN p
    ELSE IF check_token(p, "Period") THEN period_type(p)
    ELSE IF check_token(p, "Event") THEN event_type(p)
    ELSE IF check_token(p, "Continuous") THEN match_token(p, "Continuous")
    ELSE Panic(p, "Invalid task type", p.current_token.text)

task_type(p) ==
    match_token(task_type_clause(match_token(p, "OpenAngle")), "CloseAngle")

\* task: the check of the scope stack and the push
task_push(p) ==
    IF Halted(p) THEN p
    ELSE IF p.stack # <<>>
        THEN Panic(p, "Tasks may not be inside of other structures", <<>>)
    ELSE [p EXCEPT !.stack = Append(@, p.previous_token.type),
                   !.task_base = Len(p.routines)]

task(p) ==
    emit_line(
        emit_line_previous(
            emit(match_token(task_type(emit(task_push(p), <<"T","A","S","K"," ">>)),
                             "Identifier"),
                 <<" ">>)),
        <<"{">>)

\* routine: the check of the scope stack and the push
routine_push(p) ==
    IF Halted(p) THEN p
    ELSE IF stack_last(p.stack) # "Task"
        THEN Panic(p, "Routines must be defined inside of a task", <<>>)
    ELSE [p EXCEPT !.stack = Append(@, p.previous_token.type),
                   !.routine_rungs = 0]

\* routine: from start_routine to self.routines.push(..)
routine_declare(p) ==
    IF Halted(p) THEN p
    ELSE LET name == p.previous_token.text
             started == [p EXCEPT !.code_generator = start_routine(@, name)]
         IN  IF name = <<"M","a","i","n">> /\ p.main_flag
                 THEN Panic(started, "There can only be one Main routine", <<>>)
             ELSE [started EXCEPT !.main_flag = (name = <<"M","a","i","n">>) \/ @,
                                  !.routines = Append(@, name)]

routine(p) == routine_declare(match_token(routine_push(p), "Identifier"))

\* rung: the check of the scope stack and the push
rung_push(p) ==
    IF Halted(p) THEN p
    ELSE IF stack_last(p.stack) # "Routine"
        THEN Panic(p, "Rungs must be defined inside of a routine", <<>>)
    ELSE [p EXCEPT !.stack = Append(@, p.previous_token.type),
                   !.routine_rungs = @ + 1,
                   !.rung_base =
                       [forwarded |-> Len(p.forwarded),
                        code |-> Len(p.code_generator.current_code_block),
                        name |-> IF check_token(p, "Identifier")
                                     THEN p.current_token.text ELSE <<>>]]

\* rung: start_rung on the name just read
rung_named(p) ==
    IF Halted(p) THEN p
    ELSE [p EXCEPT !.code_generator = start_rung(@, p.previous_token.text)]

\* rung: the optional name
rung_start(p) ==
    IF Halted(p) THEN p
    ELSE IF check_token(p, "Identifier") THEN rung_named(next_token(p))
    ELSE [p EXCEPT !.code_generator = start_rung(@, <<>>)]

rung(p) == rung_start(rung_push(p))

\* instruction: self.match_token(..); target += self.previous_token.get_text()
\* on the pair s of the run and the target built so far
match_target(s, token_type) ==
    LET p == match_token(s.run, token_type)
    IN  [run |-> p, target |-> s.target \o p.previous_token.text]

\* instruction: the unwrap of the parsed index, its bound, add_instruction
instruction_index(s, instruction_type, length) ==
    IF Halted(s.run) THEN s.run
    ELSE LET index == ParseUnsigned(s.run.previous_token.text)
         IN  IF index = ParseErr
                 THEN Panic(s.run, "called Result::unwrap() on an Err value",
                            s.run.previous_token.text)
             ELSE IF index_out_of_bounds(index, length)
                 THEN Panic(s.run, "Index is out of bounds for tag array",
                            s.run.previous_token.text)
             ELSE add_instruction(s.run, instruction_type, s.target)

\* instruction: from let mut target to the end
instruction_target(p, instruction_type) ==
    IF Halted(p) THEN p
    ELSE LET target == p.previous_token.text
             tag_descriptor == find_tag(p.tags, target)
         IN  IF instruction_type = "Jsr"
                 THEN add_instruction([p EXCEPT !.jumps = Append(@, target)],
                                      instruction_type, target)
             ELSE IF instruction_type = "Emit"
                 THEN add_instruction(
                          [p EXCEPT !.emitted_events = Append(@, target)],
                          instruction_type, target)
             ELSE IF ~tag_descriptor.some
                 THEN Panic(p, "Referencing tag before assignment", target)
             ELSE IF tag_descriptor.value.length # 0
                 THEN instruction_index(
                          match_target(
                              match_target([run |-> p, target |-> target],
                                           "Indexer"),
                              "Number"),
                          instruction_type, tag_descriptor.value.length)
             ELSE add_instruction(p, instruction_type, target)

\* variant: an instruction is refused unless a rung is the innermost scope
instruction_rung_scoped(p) ==
    IF Halted(p) THEN p
    ELSE IF stack_last(p.stack) # "Rung"
        THEN Panic(p, "Instructions must be defined inside of a rung", <<>>)
    ELSE IF p.previous_token.type = "Ret"
        THEN add_instruction(p, p.previous_token.type, <<>>)
    ELSE instruction_target(match_token(p, "Identifier"),
                            p.previous_token.type)

\* variant: the operand is looked up in tags before it is consumed
instruction_tag_first(p) ==
    IF Halted(p) THEN p
    ELSE IF p.previous_token.type = "Ret"
        THEN add_instruction(p, p.previous_token.type, <<>>)
    ELSE IF /\ p.previous_token.type \notin {"Jsr", "Emit"}
            /\ check_token(p, "Identifier")
            /\ ~find_tag(p.tags, p.current_token.text).some
        THEN Panic(p, "Referencing tag before assignment",
                   p.current_token.text)
    ELSE instruction_target(match_token(p, "Identifier"),
                            p.previous_token.type)

instruction(p) ==
    IF Halted(p) THEN p
    ELSE IF p.previous_token.type = "Ret"
        THEN add_instruction(p, p.previous_token.type, <<>>)
    ELSE instruction_target(match_token(p, "Identifier"),
                            p.previous_token.type)

\* variant: pops without comparing the popped marker
end_rung_unchecked(p) ==
    IF Halted(p) THEN p
    ELSE [p EXCEPT !.stack = stack_pop(@).rest,
                   !.code_generator = cg_end_rung(@),
                   !.pending_base = Len(p.forwarded)]

end_rung(p) ==
    IF Halted(p) THEN p
    ELSE LET popped == stack_pop(p.stack)
             p1 == [p EXCEPT !.stack = popped.rest]
         IN  IF popped.popped # "Rung"
                 THEN Panic(p1, "Missing matching RUNG", <<>>)
                 ELSE [p1 EXCEPT !.code_generator = cg_end_rung(@),
                                 !.pending_base = Len(p.forwarded)]

end_routine(p) ==
    IF Halted(p) THEN p
    ELSE LET popped == stack_pop(p.stack)
             p1 == [p EXCEPT !.stack = popped.rest]
         IN  IF popped.popped # "Routine"
                 THEN Panic(p1, "Missing matching ENDRUNG", <<>>)
                 ELSE cg_end_routine(p1)

\* variant: leaves main_flag set when the task closes
end_task_keep_flag(p) ==
    IF Halted(p) THEN p
    ELSE IF p.stack = <<>> THEN Panic(p, "Too many end statements", <<>>)
    ELSE LET popped == stack_pop(p.stack)
             p1 == [p EXCEPT !.stack = popped.rest]
         IN  IF popped.popped # "Task"
                 THEN Panic(p1, "Missing matching ENDROUTINE", <<>>)
             ELSE IF ~p1.main_flag
                 THEN Panic(p1, "There must be a single Main routine", <<>>)
             ELSE LET finished == finish_code_block(p1.code_generator)
                      p2 == [p1 EXCEPT !.code_generator = finished.generator]
                      p3 == emit_line(p2, finished.code_block)
                  IN  emit_line(p3, <<"}">>)

\* variant: the closing marker is not emitted
end_task_no_marker(p) ==
    IF Halted(p) THEN p
    ELSE IF p.stack = <<>> THEN Panic(p, "Too many end statements", <<>>)
    ELSE LET popped == stack_pop(p.stack)
             p1 == [p EXCEPT !.stack = popped.rest]
         IN  IF popped.popped # "Task"
                 THEN Panic(p1, "Missing matching ENDROUTINE", <<>>)
             ELSE IF ~p1.main_flag
                 THEN Panic(p1, "There must be a single Main routine", <<>>)
             ELSE LET finished == finish_code_block(p1.code_generator)
                      p2 == [p1 EXCEPT !.main_flag = FALSE,
                                       !.code_generator = finished.generator]
                  IN  emit_line(p2, finished.code_block)

\* variant: the closing marker is emitted before the code block
end_task_marker_first(p) ==
    IF Halted(p) THEN p
    ELSE IF p.stack = <<>> THEN Panic(p, "Too many end statements", <<>>)
    ELSE LET popped == stack_pop(p.stack)
             p1 == [p EXCEPT !.stack = popped.rest]
         IN  IF popped.popped # "Task"
                 THEN Panic(p1, "Missing matching ENDROUTINE", <<>>)
             ELSE IF ~p1.main_flag
                 THEN Panic(p1, "There must be a single Main routine", <<>>)
             ELSE LET finished == finish_code_block(p1.code_generator)
                      p2 == [p1 EXCEPT !.main_flag = FALSE,
                                       !.code_generator = finished.generator]
                      p3 == emit_line(p2, <<"}">>)
                  IN  emit_line(p3, finished.code_block)

end_task(p) ==
    IF Halted(p) THEN p
    ELSE IF p.stack = <<>> THEN Panic(p, "Too many end statements", <<>>)
    ELSE LET popped == stack_pop(p.stack)
             p1 == [p EXCEPT !.stack = popped.rest]
         IN  IF popped.popped # "Task"
                 THEN Panic(p1, "Missing matching ENDROUTINE", <<>>)
             ELSE IF ~p1.main_flag
                 THEN Panic(p1, "There must be a single Main routine", <<>>)
             ELSE LET finished == finish_code_block(p1.code_generator)
                      p2 == [p1 EXCEPT !.main_flag = FALSE,
                                       !.code_generator = finished.generator]
                      p3 == emit_line(p2, finished.code_block)
                  IN  emit_line(p3, <<"}">>)

\* tag_array: the unwrap of the parsed length and the check for zero; the
\* pair of the run and the length
tag_array_length(p) ==
    IF Halted(p) THEN [run |-> p, length |-> 0]
    ELSE LET length == ParseUnsigned(p.previous_token.text)
         IN  IF length = ParseErr
                 THEN [run |-> Panic(p, "called Result::unwrap() on an Err value",
                                     p.previous_token.text),
                       length |-> 0]
             ELSE IF length = 0
                 THEN [run |-> Panic(p, "Length of tag array must be greater than zero",
                                     <<>>),
                       length |-> 0]
             ELSE [run |-> p, length |-> length]

\* tag_array: the three emits and the closing bracket
tag_array_emit(s) ==
    [run |-> match_token(
                 emit(emit_previous(emit(s.run, <<"T","A","G","_","A","R","R","A","Y"," ">>)), <<" ">>),
                 "CloseBracket"),
     length |-> s.length]

\* returns the run and the length
tag_array(p) ==
    tag_array_emit(
        tag_array_length(
            match_token(match_token(p, "OpenBracket"), "Number")))

\* tag: let mut length, a tag array or a single tag
tag_length(p) ==
    IF check_token(p, "OpenBracket") THEN tag_array(p)
    ELSE [run |-> emit(p, <<"T","A","G"," ">>), length |-> 0]

\* tag: the name and its emit
tag_name(s) ==
    [run |-> emit_previous(match_token(s.run, "Identifier")),
     length |-> s.length]

\* tag: the character limit and self.tags.push(..)
tags_push(s) ==
    IF Halted(s.run) THEN s.run
    ELSE LET name == s.run.previous_token.text
         IN  IF name_too_long(name)
                 THEN Panic(s.run, "Tag name too long", name)
             ELSE [s.run EXCEPT !.tags =
                       Append(@, [name |-> name, length |-> s.length])]

\* tag: either true or false
tag_value(p) ==
    IF Halted(p) THEN p
    ELSE IF check_token(p, "True")
        THEN emit_line(match_token(p, "True"), <<" ","T","R","U","E">>)
    ELSE emit_line(match_token(p, "False"), <<" ","F","A","L","S","E">>)

tag(p) ==
    IF Halted(p) THEN p
    ELSE tag_value(match_token(tags_push(tag_name(tag_length(p))), "Eq"))

RECURSIVE skip_new_lines(_)
skip_new_lines(p) ==
    IF Halted(p) THEN p
    ELSE IF check_token(p, "NewLine") THEN skip_new_lines(next_token(p))
    ELSE p

new_line(p) == skip_new_lines(match_token(p, "NewLine"))

STATEMENT_INSTRUCTIONS ==
    {"Xic", "Xio", "Ote", "Otl", "Otu", "Jsr", "Ret", "Emit"}

statement(p) ==
    LET type == p.current_token.type
        p1 == IF type = "Task" THEN task(next_token(p))
              ELSE IF type = "Routine" THEN routine(next_token(p))
              ELSE IF type = "Rung" THEN rung(next_token(p))
              ELSE IF type \in STATEMENT_INSTRUCTIONS
                  THEN instruction(next_token(p))
              ELSE IF type = "EndRung" THEN end_rung(next_token(p))
              ELSE IF type = "EndRoutine" THEN end_routine(next_token(p))
              ELSE IF type = "EndTask" THEN end_task(next_token(p))
              ELSE IF type = "Tag" THEN tag(next_token(p))
              ELSE Panic(p, "Invalid statement", p.current_token.text)
    IN  new_line(p1)

\* the first element of list that is not in declared, <<>> when all are
RECURSIVE first_missing(_, _)
first_missing(list, declared) ==
    IF list = <<>> THEN <<>>
    ELSE IF \A i \in 1..Len(declared) : declared[i] # Head(list)
        THEN <<Head(list)>>
    ELSE first_missing(Tail(list), declared)

\* variant: an open scope at the end of input is an error
program_end_scoped(p, exists) ==
    LET event == first_missing(p.emitted_events, p.events)
        jump == first_missing(p.jumps, p.routines)
    IN  IF p.stack # <<>>
            THEN Panic(p, "Missing end statement", <<>>)
        ELSE IF event # <<>>
            THEN Panic(p, "Emitted event does not correspond to a task", event[1])
        ELSE IF jump # <<>>
            THEN Panic(p, "Routine does not exist", jump[1])
        ELSE LET p1 == write_file(p, exists)
             IN  IF Halted(p1) THEN p1 ELSE [p1 EXCEPT !.done = TRUE]

\* variant: the jump targets are not checked
program_end_events_only(p, exists) ==
    LET event == first_missing(p.emitted_events, p.events)
    IN  IF event # <<>>
            THEN Panic(p, "Emitted event does not correspond to a task", event[1])
        ELSE LET p1 == write_file(p, exists)
             IN  IF Halted(p1) THEN p1 ELSE [p1 EXCEPT !.done = TRUE]

\* variant: the file is written before the deferred checks
program_end_write_first(p, exists) ==
    LET event == first_missing(p.emitted_events, p.events)
        jump == first_missing(p.jumps, p.routines)
        p1 == write_file(p, exists)
    IN  IF Halted(p1) THEN p1
        ELSE IF event # <<>>
            THEN Panic(p1, "Emitted event does not correspond to a task", event[1])
        ELSE IF jump # <<>>
            THEN Panic(p1, "Routine does not exist", jump[1])
        ELSE [p1 EXCEPT !.done = TRUE]

\* Parser::program after the statement loop
program_end(p, exists) ==
    LET event == first_missing(p.emitted_events, p.events)
        jump == first_missing(p.jumps, p.routines)
    IN  IF event # <<>>
            THEN Panic(p, "Emitted event does not correspond to a task", event[1])
        ELSE IF jump # <<>>
            THEN Panic(p, "Routine does not exist", jump[1])
        ELSE LET p1 == write_file(p, exists)
             IN  IF Halted(p1) THEN p1 ELSE [p1 EXCEPT !.done = TRUE]

----------------------------------------------------------------------------
(* The sources compiled.  A source is a sequence of lines, each ending in  *)
(* the NewLine token; Lexer::new appends the last end-of-line, so the      *)
(* token before Eof is always NewLine.  Three classes of sources are       *)
(* explored: "nesting" sources of up to MaxNestingLines block statements,  *)
(* "symbols" sources of up to MaxSymbolLines statements of any kind,       *)
(* "rungs" sources, which open a routine of a task over the tags a and b   *)
(* and go on with up to MaxRungLines rung statements and instructions,     *)
(* and "tasks" sources, which open a task and go on with up to             *)
(* MaxTaskLines block statements, tag declarations and RET instructions.   *)

Profiles == {"nesting", "symbols", "rungs", "tasks"}

BlankLine == <<NL>>
EofLine == <<Punct("Eof")>>

TaskLine(clause) ==
    <<Keyword("Task"), Punct("OpenAngle")>> \o clause
        \o <<Punct("CloseAngle"), Ident(<<"t">>), NL>>

TagLine(name, value) == <<Keyword("Tag"), Ident(name), Punct("Eq"), value, NL>>

TagArrayLine(length, name, value) ==
    <<Keyword("Tag"), Punct("OpenBracket"), Num(length), Punct("CloseBracket"),
      Ident(name), Punct("Eq"), value, NL>>

NestingLines ==
    {TaskLine(<<Keyword("Continuous")>>),
     <<Keyword("Routine"), Ident(<<"M","a","i","n">>), NL>>,
     <<Keyword("Routine"), Ident(<<"a">>), NL>>,
     <<Keyword("Rung"), NL>>,
     <<Keyword("EndRung"), NL>>,
     <<Keyword("EndRoutine"), NL>>,
     <<Keyword("EndTask"), NL>>}

TaskLines ==
    {TaskLine(<<Keyword("Event"), Punct("Eq"), Ident(<<"e">>)>>),
     TaskLine(<<Keyword("Period"), Punct("Eq"), Num(<<"2","0">>)>>),
     TaskLine(<<Keyword("Period"), Punct("Eq"), Num(<<"1","9">>)>>),
     TaskLine(<<Keyword("Period"), Punct("Eq"), Num(<<"2","1">>)>>),
     TaskLine(<<Keyword("Period"), Punct("Eq"), Num(<<"9">>)>>),
     TaskLine(<<Ident(<<"I","N","V","A","L","I","D">>)>>)}

TagLines ==
    {TagLine(<<"a">>, Keyword("True")),
     TagLine(<<"a">>, Keyword("False")),
     TagLine(<<"a","b","c","d","e","f","g">>, Keyword("True")),
     TagLine(<<"a","b","c","d","e","f","g","h">>, Keyword("True")),
     TagLine(<<"a">>, Ident(<<"n","o","t","A","K","e","y","w","o","r","d">>)),
     TagArrayLine(<<"0">>, <<"a">>, Keyword("False")),
     TagArrayLine(<<"1">>, <<"a">>, Keyword("False")),
     TagArrayLine(<<"2">>, <<"a">>, Keyword("True"))}

InstructionLines ==
    {<<Keyword(i), Ident(<<"a">>), NL>> :
         i \in {"Xic", "Xio", "Ote", "Otl", "Otu", "Jsr"}}
    \cup {<<Keyword(i), Ident(<<"a">>), Punct("Indexer"), Num(n), NL>> :
              i \in {"Xic", "Ote"}, n \in {<<"0">>, <<"1">>, <<"2">>}}
    \cup {<<Keyword("Jsr"), Ident(<<"M","a","i","n">>), NL>>,
          <<Keyword("Emit"), Ident(<<"e">>), NL>>,
          <<Keyword("Ret"), NL>>}

OtherLines ==
    {<<Keyword("Rung"), Ident(<<"r">>), NL>>,
     <<Keyword("Routine"), NL>>,
     <<Ident(<<"a">>), NL>>,
     <<LexPanic("Unknown token")>>,
     <<Keyword("Xic"), Ident(<<"a">>), Punct("Indexer"),
       LexPanic("Illegal character in number")>>}

SymbolLines ==
    NestingLines \cup TaskLines \cup TagLines \cup InstructionLines
        \cup OtherLines

\* the opening lines of every "rungs" source
RungHeader ==
    <<TagLine(<<"a">>, Keyword("False")),
      TagLine(<<"b">>, Keyword("False")),
      TaskLine(<<Keyword("Continuous")>>),
      <<Keyword("Routine"), Ident(<<"M","a","i","n">>), NL>>>>

RungLines ==
    {<<Keyword("Rung"), NL>>,
     <<Keyword("EndRung"), NL>>,
     <<Keyword("Xic"), Ident(<<"a">>), NL>>,
     <<Keyword("Xio"), Ident(<<"b">>), NL>>,
     <<Keyword("Ote"), Ident(<<"a">>), NL>>,
     <<Keyword("Ote"), Ident(<<"b">>), NL>>,
     <<Keyword("Otu"), Ident(<<"a">>), NL>>,
     <<Keyword("Ret"), NL>>}

\* the opening line of every "tasks" source
\* the TASK statement a "tasks" source opens with: the continuous task the
\* body lines continue, or a periodic task whose period is a number with a
\* fraction or a number above u32::MAX
TaskOpeners ==
    {TaskLine(<<Keyword("Continuous")>>),
     TaskLine(<<Keyword("Period"), Punct("Eq"), Num(<<"2","0",".","5">>)>>),
     TaskLine(<<Keyword("Period"), Punct("Eq"), Num(<<"1","0",".","5","0">>)>>),
     TaskLine(<<Keyword("Period"), Punct("Eq"), Num(<<"4","2","9","4","9","6","7","2","9","6">>)>>)}

TaskBodyLines ==
    {TaskLine(<<Keyword("Continuous")>>),
     TagLine(<<"a">>, Keyword("True")),
     <<Keyword("Routine"), Ident(<<"M","a","i","n">>), NL>>,
     <<Keyword("Routine"), Ident(<<"a">>), NL>>,
     <<Keyword("Rung"), NL>>,
     <<Keyword("Rung"), Ident(<<"r">>), NL>>,
     <<Keyword("Ret"), NL>>,
     <<Keyword("EndRung"), NL>>,
     <<Keyword("EndRoutine"), NL>>,
     <<Keyword("EndTask"), NL>>}

LineCap(class) ==
    IF class = "nesting" THEN MaxNestingLines
    ELSE IF class = "symbols" THEN MaxSymbolLines
    ELSE IF class = "rungs" THEN Len(RungHeader) + MaxRungLines
    ELSE 1 + MaxTaskLines

\* blank lines are explored in the "nesting" and "symbols" sources
BlankCap(class) == IF class \in {"rungs", "tasks"} THEN 0 ELSE MaxBlank

\* the lines a source of the class may have after its first n lines
ProfileLines(class, n) ==
    IF class = "nesting" THEN NestingLines \cup {EofLine}
    ELSE IF class = "symbols" THEN SymbolLines \cup {EofLine}
    ELSE IF class = "rungs"
        THEN IF n < Len(RungHeader) THEN {RungHeader[n + 1]}
                                    ELSE RungLines \cup {EofLine}
    ELSE IF n = 0 THEN TaskOpeners
    ELSE TaskBodyLines \cup {EofLine}

RECURSIVE Blanks(_)
Blanks(k) == IF k = 0 THEN <<>> ELSE BlankLine \o Blanks(k - 1)

\* the lines the lexer may read next: up to MaxBlank blank lines, then one
\* more line or the end of the source
Extensions(p) ==
    LET lines == IF p.lexer.lines < LineCap(p.profile)
                     THEN ProfileLines(p.profile, p.lexer.lines)
                     ELSE {EofLine}
    IN  {[tokens |-> Blanks(k) \o l, lines |-> IF l[1].type = "Eof" THEN 0 ELSE 1] :
             k \in 0..BlankCap(p.profile), l \in lines}

Extend(p, ext) ==
    [p EXCEPT !.lexer.buf = @ \o ext.tokens,
              !.lexer.lines = @ + ext.lines,
              !.starved = FALSE]

----------------------------------------------------------------------------
(* The state machine.                                                      *)

\* the run in the current state
Run ==
    [lexer |-> lexer, emitter |-> emitter, code_generator |-> code_generator,
     tags |-> tags, routines |-> routines, jumps |-> jumps, events |-> events,
     emitted_events |-> emitted_events, stack |-> stack,
     main_flag |-> main_flag, previous_token |-> previous_token,
     current_token |-> current_token, peek_token |-> peek_token,
     panic |-> panic, done |-> done, file |-> file, forwarded |-> forwarded,
     task_base |-> task_base, rung_base |-> rung_base,
     pending_base |-> pending_base, routine_rungs |-> routine_rungs,
     profile |-> profile,
     starved |-> FALSE]

\* Parser { .. } of Parser::new, over Lexer::new and Emitter::new
Fresh(class) ==
    [lexer |-> [buf |-> <<>>, eof |-> FALSE, lines |-> 0],
     emitter |-> [compiled_code |-> <<>>],
     code_generator |-> CodeGeneratorDefault,
     tags |-> <<>>, routines |-> <<>>, jumps |-> <<>>, events |-> <<>>,
     emitted_events |-> <<>>, stack |-> <<>>, main_flag |-> FALSE,
     previous_token |-> TokenDefault, current_token |-> TokenDefault,
     peek_token |-> TokenDefault,
     panic |-> NoPanic, done |-> FALSE,
     file |-> [opened |-> "no", writes |-> 0, written |-> <<>>],
     forwarded |-> <<>>, task_base |-> 0,
     rung_base |-> [forwarded |-> 0, code |-> 0, name |-> <<>>],
     pending_base |-> 0,
     routine_rungs |-> 0, profile |-> class,
     starved |-> FALSE]

\* Parser::new: next_token twice
new(p) == next_token(next_token(p))

\* the source left unread at a panic is of no account
Settled(r) ==
    IF r.panic.kind # "" THEN [r EXCEPT !.lexer.buf = <<>>] ELSE r

Init ==
    \E class \in Profiles :
        \E ext \in Extensions(Fresh(class)) :
            /\ ext.tokens[1].type # "Eof"
            /\ LET r == Settled(new(Extend(Fresh(class), ext)))
               IN  /\ ~r.starved
                   /\ lexer = r.lexer
                   /\ emitter = r.emitter
                   /\ code_generator = r.code_generator
                   /\ tags = r.tags
                   /\ routines = r.routines
                   /\ jumps = r.jumps
                   /\ events = r.events
                   /\ emitted_events = r.emitted_events
                   /\ stack = r.stack
                   /\ main_flag = r.main_flag
                   /\ previous_token = r.previous_token
                   /\ current_token = r.current_token
                   /\ peek_token = r.peek_token
                   /\ panic = r.panic
                   /\ done = r.done
                   /\ file = r.file
                   /\ forwarded = r.forwarded
                   /\ task_base = r.task_base
                   /\ rung_base = r.rung_base
                   /\ pending_base = r.pending_base
                   /\ routine_rungs = r.routine_rungs
                   /\ profile = r.profile
                   /\ scanner = Lexer_new(<<>>)
                   /\ scanned = <<>>

Becomes(r0) ==
    LET r == Settled(r0)
    IN  /\ lexer' = r.lexer
        /\ emitter' = r.emitter
        /\ code_generator' = r.code_generator
        /\ tags' = r.tags
        /\ routines' = r.routines
        /\ jumps' = r.jumps
        /\ events' = r.events
        /\ emitted_events' = r.emitted_events
        /\ stack' = r.stack
        /\ main_flag' = r.main_flag
        /\ previous_token' = r.previous_token
        /\ current_token' = r.current_token
        /\ peek_token' = r.peek_token
        /\ panic' = r.panic
        /\ done' = r.done
        /\ file' = r.file
        /\ forwarded' = r.forwarded
        /\ task_base' = r.task_base
        /\ rung_base' = r.rung_base
        /\ pending_base' = r.pending_base
        /\ routine_rungs' = r.routine_rungs
        /\ profile' = r.profile
        /\ UNCHANGED <<scanner, scanned>>

Running == panic.kind = "" /\ ~done

\* the state after a statement that had all the source it read
Taken(r) == ~r.starved /\ Becomes(r)

\* the state after statement r, or, when it read beyond the lines drawn so
\* far, after the statement on the source with its next lines drawn
Advance(r) ==
    IF ~r.starved THEN Becomes(r)
    ELSE \E ext \in Extensions(Run) : Taken(statement(Extend(Run, ext)))

\* one pass of the loop of Parser::program: self.statement()
Statement ==
    /\ Running
    /\ ~check_token(Run, "Eof")
    /\ Advance(statement(Run))

TaskStatement == check_token(Run, "Task") /\ Statement
RoutineStatement == check_token(Run, "Routine") /\ Statement
RungStatement == check_token(Run, "Rung") /\ Statement
InstructionStatement ==
    current_token.type \in STATEMENT_INSTRUCTIONS /\ Statement
EndRungStatement == check_token(Run, "EndRung") /\ Statement
EndRoutineStatement == check_token(Run, "EndRoutine") /\ Statement
EndTaskStatement == check_token(Run, "EndTask") /\ Statement
TagStatement == check_token(Run, "Tag") /\ Statement
InvalidStatement ==
    /\ current_token.type \notin
           STATEMENT_INSTRUCTIONS \cup
               {"Task", "Routine", "Rung", "EndRung", "EndRoutine",
                "EndTask", "Tag"}
    /\ Statement

\* the end of Parser::program: the deferred checks and the flush
ProgramEnd ==
    /\ Running
    /\ check_token(Run, "Eof")
    /\ \E exists \in BOOLEAN : Becomes(program_end(Run, exists))

Next ==
    \/ TaskStatement
    \/ RoutineStatement
    \/ RungStatement
    \/ InstructionStatement
    \/ EndRungStatement
    \/ EndRoutineStatement
    \/ EndTaskStatement
    \/ TagStatement
    \/ InvalidStatement
    \/ ProgramEnd

Spec == Init /\ [][Next]_vars

----------------------------------------------------------------------------
(* The lexer alone: get_token called on a Lexer, as the tests of           *)
(* src/lexer.rs call it, until it panics or has returned Eof MaxEofCalls    *)
(* times.  The sources are every text of up to MaxSourceLen characters of  *)
(* LexAlphabet and the texts of the tests.                                 *)

LexAlphabet == {"a", "1", ".", " ", "#", "\n", "_", "=", E_ACUTE, NUL}

TestSources ==
    {<<"T","A","S","K","<","P","E","R","I","O","D","=","1","0",".","5","0",">"," ","m","y","T","a","s","k"," ","#"," ","T","h","i","s"," ","i","s"," ","m","y"," ","t","a","s","k">>,
     <<"T","A","S","K","<","P","E","R","I","O","D","=","1","0",".",">"," ","m","y","T","a","s","k"," ","#"," ","T","h","i","s"," ","i","s"," ","m","y"," ","t","a","s","k">>,
     <<"T","A","S","K","<","P","E","R","I","O","D","=","1","0",".","5","0",">"," ","m","y","_","T","a","s","k"," ","#"," ","T","h","i","s"," ","i","s"," ","m","y"," ","t","a","s","k">>,
     <<"T","A","G","[","2","]"," ","t","9"," ","="," ","T","R","U","E","\r","\n","\t","X","I","C"," ","t","9",".","0"," ","#">>}

LexSources ==
    UNION {[1..n -> LexAlphabet] : n \in 0..MaxSourceLen} \cup TestSources

\* the parser is not run
ParserIdle ==
    LET r == Fresh("symbols")
    IN  /\ lexer = r.lexer
        /\ emitter = r.emitter
        /\ code_generator = r.code_generator
        /\ tags = r.tags
        /\ routines = r.routines
        /\ jumps = r.jumps
        /\ events = r.events
        /\ emitted_events = r.emitted_events
        /\ stack = r.stack
        /\ main_flag = r.main_flag
        /\ previous_token = r.previous_token
        /\ current_token = r.current_token
        /\ peek_token = r.peek_token
        /\ panic = r.panic
        /\ done = r.done
        /\ file = r.file
        /\ forwarded = r.forwarded
        /\ task_base = r.task_base
        /\ rung_base = r.rung_base
        /\ pending_base = r.pending_base
        /\ routine_rungs = r.routine_rungs
        /\ profile = r.profile

LexInit ==
    /\ ParserIdle
    /\ \E source_code \in LexSources : scanner = Lexer_new(source_code)
    /\ scanned = <<>>

\* the state after a call of get_token
LexBecomes(got) ==
    /\ scanner' = got.lexer
    /\ panic' = got.panic
    /\ scanned' = IF got.panic.kind = "" THEN Append(scanned, got.token)
                                         ELSE scanned
    /\ UNCHANGED <<lexer, emitter, code_generator, tags, routines, jumps,
                   events, emitted_events, stack, main_flag, previous_token,
                   current_token, peek_token, done, file, forwarded,
                   task_base, rung_base, pending_base, routine_rungs,
                   profile>>

\* lexer.get_token(), until Eof has been returned MaxEofCalls times
LexGetToken ==
    /\ panic.kind = ""
    /\ Cardinality({i \in 1..Len(scanned) : scanned[i].type = "Eof"})
           < MaxEofCalls
    /\ LexBecomes(Lexer_get_token(scanner))

LexNext == LexGetToken

LexSpec == LexInit /\ [][LexNext]_vars


----------------------------------------------------------------------------
(* The properties checked.  Each is stated over the variables alone: the   *)
(* statement about to be parsed is read from current_token, peek_token and *)
(* the rest of its line in lexer.buf, the outcome from the primed          *)
(* variables.                                                              *)

\* C1: scopes nest strictly as task > routine > rung.  TASK aborts unless
\* the scope stack is empty, ROUTINE aborts unless the innermost open scope
\* is a task, RUNG aborts unless the innermost open scope is a routine (a
\* lexical abort in the token read ahead may come first); an accepted
\* opening statement pushes its marker, so the stack is always a
\* prefix of <<Task, Routine, Rung>>.
C1_ScopeNesting ==
    [][LET top == IF stack = <<>> THEN "None" ELSE stack[Len(stack)]
           opener == current_token.type
           lexical == {"Unknown token", "Illegal character in number"}
       IN  /\ stack' \in {<<>>, <<"Task">>, <<"Task", "Routine">>,
                          <<"Task", "Routine", "Rung">>}
           /\ (opener = "Task" /\ stack # <<>>) =>
                  /\ panic'.kind \in {"Tasks may not be inside of other structures"} \cup lexical
                  /\ stack' = stack
           /\ (opener = "Routine" /\ top # "Task") =>
                  /\ panic'.kind \in {"Routines must be defined inside of a task"} \cup lexical
                  /\ stack' = stack
           /\ (opener = "Rung" /\ top # "Routine") =>
                  /\ panic'.kind \in {"Rungs must be defined inside of a routine"} \cup lexical
                  /\ stack' = stack
           /\ (opener = "Task" /\ stack = <<>> /\ panic'.kind = "") =>
                  stack' = <<"Task">>
           /\ (opener = "Routine" /\ top = "Task" /\ panic'.kind = "") =>
                  stack' = <<"Task", "Routine">>
           /\ (opener = "Rung" /\ top = "Routine" /\ panic'.kind = "") =>
                  stack' = <<"Task", "Routine", "Rung">>]_vars

\* a TASK statement met inside a rung has aborted the translation
C1_Witness ==
    /\ panic.kind = "Tasks may not be inside of other structures"
    /\ stack = <<"Task", "Routine", "Rung">>

\* C2: ENDRUNG, ENDROUTINE and ENDTASK each pop the scope stack and require
\* the popped marker to be the matching one; a mismatch, ENDRUNG included,
\* and an end marker on an empty stack abort, and an accepted end marker
\* leaves the stack one marker shorter.
C2_EndMarkers ==
    [][LET top == IF stack = <<>> THEN "None" ELSE stack[Len(stack)]
           closer == current_token.type
           expected == CASE closer = "EndRung" -> "Rung"
                         [] closer = "EndRoutine" -> "Routine"
                         [] closer = "EndTask" -> "Task"
                         [] OTHER -> "NotAnEndMarker"
           front == SubSeq(stack, 1, Len(stack) - 1)
           lexical == {"Unknown token", "Illegal character in number"}
       IN  closer \in {"EndRung", "EndRoutine", "EndTask"} =>
               /\ top # expected => panic'.kind # ""
               /\ panic'.kind = "" => top = expected /\ stack' = front
               /\ stack = <<>> => panic'.kind # "" /\ stack' = <<>>
               /\ (stack # <<>> /\ top # expected) =>
                      /\ panic'.kind \in {"Missing matching RUNG",
                                          "Missing matching ENDRUNG",
                                          "Missing matching ENDROUTINE"}
                                             \cup lexical
                      /\ panic'.kind \notin lexical => stack' = front]_vars

\* ENDTASK met with a routine still open has popped the routine and aborted
C2_Witness ==
    /\ panic.kind = "Missing matching ENDROUTINE"
    /\ previous_token.type = "EndTask"
    /\ stack = <<"Task">>

\* C3, as the specification states it: a source whose end is reached with
\* a scope still open aborts, so the output file is never written for it.
C3_OpenScopeNeverFlushed == stack # <<>> => file.writes = 0

\* C3, as the code has it: the end of input is not checked against the
\* scope stack.  With a scope still open the end of the program raises no
\* scope error, goes on to the deferred checks of EMIT and JSR targets,
\* and writes the file when they pass.
C3_OpenScopeAtEndOfInput ==
    [][(panic.kind = "" /\ ~done /\ current_token.type = "Eof"
           /\ stack # <<>>) =>
          LET declared(list, table) ==
                  \A i \in 1..Len(list) :
                      \E j \in 1..Len(table) : table[j] = list[i]
          IN  /\ stack' = stack
              /\ panic'.kind \in {"", "Couldn't open", "Couldn't write to",
                                  "Emitted event does not correspond to a task",
                                  "Routine does not exist"}
              /\ (declared(emitted_events, events) /\ declared(jumps, routines))
                     => file'.writes = 1]_vars

\* the file has been written with a task, a routine and a rung open
C3_Witness ==
    /\ file.writes = 1
    /\ stack = <<"Task", "Routine", "Rung">>

\* C4: each task holds exactly one routine named Main.  While a task is
\* open, main_flag says whether a Main routine has been declared since the
\* task began; a second Main in the task aborts, ENDTASK is accepted only
\* when the task has its Main, and it clears main_flag so that the next
\* task needs a Main of its own.
C4_OneMainPerTask ==
    [][LET main_declared(table, base) ==
               \E i \in (base + 1)..Len(table) : table[i] = <<"M","a","i","n">>
       IN  /\ panic'.kind = "" =>
                  (main_flag' <=>
                       stack' # <<>> /\ main_declared(routines', task_base'))
           /\ (current_token.type = "EndTask" /\ panic'.kind = "") =>
                  /\ main_declared(routines, task_base)
                  /\ ~main_flag'
           /\ (current_token.type = "EndTask" /\ stack = <<"Task">>
                   /\ ~main_declared(routines, task_base)) =>
                  panic'.kind \in {"There must be a single Main routine",
                                    "Unknown token",
                                    "Illegal character in number"}
           /\ (current_token.type = "Routine" /\ stack = <<"Task">>
                   /\ peek_token = Ident(<<"M","a","i","n">>)
                   /\ main_declared(routines, task_base)) =>
                  /\ panic'.kind # ""
                  /\ routines' = routines]_vars

\* two tasks have been closed, each with a Main routine of its own
C4_Witness ==
    /\ panic.kind = ""
    /\ stack = <<>>
    /\ ~main_flag
    /\ Cardinality({i \in 1..Len(routines) : routines[i] = <<"M","a","i","n">>}) = 2
    /\ task_base > 0
    /\ routines[Len(routines)] = <<"M","a","i","n">>

\* C5: JSR and EMIT targets are recorded where they are referenced and are
\* validated only at the end of the program, against every task event and
\* routine declared anywhere in the source: the file is written exactly
\* when every emitted event is a task event and every jump target is a
\* routine, and otherwise the first offending emitted event, or failing
\* that the first offending jump target, is reported.
C5_DeferredTargets ==
    [][LET known(name, table) == \E j \in 1..Len(table) : table[j] = name
           declared(list, table) ==
               \A i \in 1..Len(list) : known(list[i], table)
           first_unknown(list, table) ==
               list[CHOOSE i \in 1..Len(list) :
                        /\ ~known(list[i], table)
                        /\ \A j \in 1..(i - 1) : known(list[j], table)]
           lexical == {"Unknown token", "Illegal character in number"}
           deferred == {"Routine does not exist",
                        "Emitted event does not correspond to a task"}
           operand == peek_token.type = "Identifier"
       IN  /\ current_token.type # "Eof" =>
                  /\ panic'.kind \notin deferred
                  /\ file' = file
           /\ (current_token.type = "Jsr" /\ operand
                   /\ panic'.kind \notin lexical) =>
                  jumps' = Append(jumps, peek_token.text)
           /\ (current_token.type = "Emit" /\ operand
                   /\ panic'.kind \notin lexical) =>
                  emitted_events' = Append(emitted_events, peek_token.text)
           /\ (panic.kind = "" /\ ~done /\ current_token.type = "Eof") =>
                  /\ (declared(emitted_events, events)
                          /\ declared(jumps, routines))
                         <=> file'.writes = file.writes + 1
                  /\ ~declared(emitted_events, events) =>
                         /\ panic'.kind =
                                "Emitted event does not correspond to a task"
                         /\ panic'.arg = first_unknown(emitted_events, events)
                  /\ (declared(emitted_events, events)
                          /\ ~declared(jumps, routines)) =>
                         /\ panic'.kind = "Routine does not exist"
                         /\ panic'.arg = first_unknown(jumps, routines)]_vars

\* a jump to a routine that no line of the source declares is reported at
\* the end of the program, the jump itself having been accepted
C5_Witness ==
    /\ panic.kind = "Routine does not exist"
    /\ panic.arg = <<"a">>
    /\ current_token.type = "Eof"
    /\ routines # <<>>
    /\ \E k \in 1..Len(forwarded) :
           forwarded[k] = [instruction |-> "Jsr", target |-> <<"a">>]

\* C6: the output is buffered in memory and the file is written at most
\* once, at the end of a program whose deferred checks pass; a translation
\* that aborts for any reason other than the write itself never touches
\* the file.
C6_WriteOnlyOnSuccess ==
    LET declared(list, table) ==
            \A i \in 1..Len(list) : \E j \in 1..Len(table) : table[j] = list[i]
        flush == {"Couldn't open", "Couldn't write to"}
    IN  /\ file.writes \in {0, 1}
        /\ file.writes = 1 =>
               /\ current_token.type = "Eof"
               /\ declared(emitted_events, events)
               /\ declared(jumps, routines)
               /\ panic.kind \in {""} \cup flush
        /\ file.writes = 0 => file.opened = "no"
        /\ panic.kind \notin {""} \cup flush =>
               file.writes = 0 /\ file.opened = "no"
        /\ done => file.writes = 1 /\ panic.kind = ""

\* a translation has aborted with output already buffered and no file
\* written
C6_Witness ==
    /\ panic.kind = "There must be a single Main routine"
    /\ emitter.compiled_code # <<>>
    /\ file.writes = 0

\* C7: XIC, XIO, OTE, OTL and OTU on a name that no earlier TAG statement
\* declared abort with "Referencing tag before assignment" and forward
\* nothing to the code generator; the only abort that can come first is a
\* lexical one in the tokens already read ahead.
C7_TagBeforeAssignment ==
    [][(/\ current_token.type \in {"Xic", "Xio", "Ote", "Otl", "Otu"}
        /\ peek_token.type = "Identifier"
        /\ \A i \in 1..Len(tags) : tags[i].name # peek_token.text) =>
           /\ panic'.kind \in {"Referencing tag before assignment",
                               "Unknown token", "Illegal character in number"}
           /\ panic'.kind = "Referencing tag before assignment" =>
                  panic'.arg = peek_token.text
           /\ forwarded' = forwarded
           /\ code_generator' = code_generator
           /\ tags' = tags]_vars

\* an instruction has named a tag that is not among the tags declared so far
C7_Witness ==
    /\ panic.kind = "Referencing tag before assignment"
    /\ panic.arg = <<"a">>
    /\ tags # <<>>
    /\ \A i \in 1..Len(tags) : tags[i].name # <<"a">>

\* C8: an instruction on a tag declared as an array must carry ".index":
\* the bare name aborts, an index at or above the declared length aborts
\* as out of bounds, and an index below it is forwarded to the code
\* generator as the text name.index.
C8_ArrayIndex ==
    [][LET name == peek_token.text
           line == lexer.buf
           lexical == {"Unknown token", "Illegal character in number"}
           first == CHOOSE i \in 1..Len(tags) :
                        /\ tags[i].name = name
                        /\ \A j \in 1..(i - 1) : tags[j].name # name
       IN  (/\ current_token.type \in {"Xic", "Xio", "Ote", "Otl", "Otu"}
            /\ peek_token.type = "Identifier"
            /\ \E i \in 1..Len(tags) : tags[i].name = name
            /\ tags[first].length > 0
            /\ line # <<>>) =>
               /\ line[1].type # "Indexer" =>
                      /\ panic'.kind \in {"Expected"} \cup lexical
                      /\ forwarded' = forwarded
               /\ (/\ Len(line) >= 2
                   /\ line[1].type = "Indexer"
                   /\ line[2].type = "Number"
                   /\ ParseUnsigned(line[2].text) # ParseErr) =>
                      LET index == ParseUnsigned(line[2].text)
                      IN  /\ index >= tags[first].length =>
                                 /\ panic'.kind \in
                                        {"Index is out of bounds for tag array"}
                                            \cup lexical
                                 /\ forwarded' = forwarded
                          /\ index < tags[first].length =>
                                 /\ panic'.kind
                                        # "Index is out of bounds for tag array"
                                 /\ panic'.kind \notin lexical =>
                                        forwarded' =
                                            Append(forwarded,
                                                   [instruction |->
                                                        current_token.type,
                                                    target |->
                                                        name \o <<".">> \o
                                                            line[2].text])]_vars

\* the last element of an array of two has been referenced and forwarded
C8_Witness ==
    /\ panic.kind = ""
    /\ tags = <<[name |-> <<"a">>, length |-> 2]>>
    /\ \E k \in 1..Len(forwarded) :
           forwarded[k] = [instruction |-> "Xic", target |-> <<"a",".","1">>]

\* C9: declaring a tag name again appends a further descriptor to the tag
\* table, and every reference goes by the first descriptor of the name:
\* whether the name is a scalar or an array, and what its bound is, is
\* settled by the first declaration whatever the later ones say.
C9_FirstDeclarationWins ==
    [][LET name == peek_token.text
           line == lexer.buf
           lexical == {"Unknown token", "Illegal character in number"}
           places == {i \in 1..Len(tags) : tags[i].name = name}
           first == CHOOSE i \in places : \A j \in places : i <= j
       IN  /\ (current_token.type = "Tag" /\ panic'.kind = "") =>
                  /\ Len(tags') = Len(tags) + 1
                  /\ SubSeq(tags', 1, Len(tags)) = tags
           /\ (/\ current_token.type \in {"Xic", "Xio", "Ote", "Otl", "Otu"}
               /\ peek_token.type = "Identifier"
               /\ Cardinality(places) >= 2
               /\ line # <<>>) =>
                  /\ tags' = tags
                  /\ (tags[first].length = 0 /\ line[1].type = "NewLine"
                          /\ panic'.kind \notin lexical) =>
                         forwarded' =
                             Append(forwarded,
                                    [instruction |-> current_token.type,
                                     target |-> name])
                  /\ (tags[first].length = 0 /\ line[1].type = "Indexer") =>
                         /\ panic'.kind \notin
                                {"", "Index is out of bounds for tag array"}
                         /\ forwarded' # forwarded =>
                                forwarded' =
                                    Append(forwarded,
                                           [instruction |-> current_token.type,
                                            target |-> name])
                  /\ (tags[first].length > 0 /\ line[1].type = "NewLine") =>
                         panic'.kind \in {"Expected"} \cup lexical
                  /\ (/\ tags[first].length > 0
                      /\ Len(line) >= 2
                      /\ line[1].type = "Indexer"
                      /\ line[2].type = "Number"
                      /\ ParseUnsigned(line[2].text) # ParseErr
                      /\ panic'.kind \notin lexical) =>
                         (panic'.kind = "Index is out of bounds for tag array"
                              <=> ParseUnsigned(line[2].text)
                                      >= tags[first].length)]_vars

\* index 1 has been refused by the bound of the first declaration of a,
\* though the second declaration of a has room for it
C9_Witness ==
    /\ tags = <<[name |-> <<"a">>, length |-> 1], [name |-> <<"a">>, length |-> 2]>>
    /\ panic.kind = "Index is out of bounds for tag array"
    /\ previous_token = Num(<<"1">>)

\* C10: a TAG statement that declares an array of length zero, or a name
\* of more than seven characters, aborts and adds nothing to the tag
\* table; a name of exactly seven characters and an array of length one or
\* more are accepted, and every descriptor added has passed both checks.
C10_TagLimits ==
    [][LET array == peek_token.type = "OpenBracket"
           line == lexer.buf
           lexical == {"Unknown token", "Illegal character in number"}
           shaped == IF array
                         THEN /\ Len(line) >= 6
                              /\ line[1].type = "Number"
                              /\ ParseUnsigned(line[1].text) # ParseErr
                              /\ line[2].type = "CloseBracket"
                              /\ line[3].type = "Identifier"
                         ELSE peek_token.type = "Identifier"
           name == IF array THEN line[3].text ELSE peek_token.text
           length == IF array THEN ParseUnsigned(line[1].text) ELSE 0
           rest == IF array THEN SubSeq(line, 4, Len(line)) ELSE line
           valued == /\ Len(rest) >= 3
                     /\ rest[1].type = "Eq"
                     /\ rest[2].type \in {"True", "False"}
                     /\ rest[3].type = "NewLine"
       IN  (current_token.type = "Tag" /\ shaped) =>
               /\ (array /\ length = 0) =>
                      /\ panic'.kind \in
                             {"Length of tag array must be greater than zero"}
                                 \cup lexical
                      /\ tags' = tags
               /\ (Len(name) > 7 /\ ~(array /\ length = 0)) =>
                      /\ panic'.kind \in {"Tag name too long"} \cup lexical
                      /\ tags' = tags
               /\ tags' # tags =>
                      /\ tags' = Append(tags, [name |-> name,
                                               length |-> length])
                      /\ Len(name) <= 7
                      /\ array => length >= 1
               /\ (Len(name) <= 7 /\ (array => length >= 1) /\ valued) =>
                      /\ panic'.kind \in {""} \cup lexical
                      /\ panic'.kind = "" =>
                             tags' = Append(tags, [name |-> name,
                                                   length |-> length])]_vars

\* a name of exactly seven characters has been declared
C10_Witness ==
    /\ panic.kind = ""
    /\ \E i \in 1..Len(tags) : Len(tags[i].name) = 7

\* C11: a TASK statement with a PERIOD clause is accepted exactly when the
\* period is at least 20: at the outermost level every period below 20
\* aborts with the period-below-limit condition, the period 20 and every
\* greater one opens the task, and the condition is raised by no other
\* statement.
C11_PeriodLowerBound ==
    [][LET line == lexer.buf
           lexical == {"Unknown token", "Illegal character in number"}
           clause == /\ current_token.type = "Task"
                     /\ peek_token.type = "OpenAngle"
                     /\ Len(line) >= 6
                     /\ line[1].type = "Period"
                     /\ line[2].type = "Eq"
                     /\ line[3].type = "Number"
                     /\ ParseU32(line[3].text) # ParseErr
                     /\ line[4].type = "CloseAngle"
                     /\ line[5].type = "Identifier"
                     /\ line[6].type = "NewLine"
           period == ParseU32(line[3].text)
       IN  /\ (panic.kind = "" /\ ~done /\ clause /\ stack = <<>>) =>
                  /\ period < 20 =>
                         /\ panic'.kind = "Period below allowable limit"
                         /\ events' = events
                  /\ period >= 20 =>
                         /\ panic'.kind \in {""} \cup lexical
                         /\ panic'.kind = "" =>
                                /\ stack' = <<"Task">>
                                /\ emitter'.compiled_code =
                                       emitter.compiled_code
                                           \o <<"T","A","S","K"," ","P","E","R","I","O","D"," ">> \o line[3].text
                                           \o <<" ">> \o line[5].text
                                           \o <<"\n","{","\n">>
           /\ panic'.kind = "Period below allowable limit" =>
                  /\ clause
                  /\ period < 20]_vars

\* a task of period 20, the limit itself, has been opened
C11_Witness ==
    /\ panic.kind = ""
    /\ stack = <<"Task">>
    /\ emitter.compiled_code = <<"T","A","S","K"," ","P","E","R","I","O","D"," ","2","0"," ","t","\n","{","\n">>

\* C12: within a rung an input instruction that follows an output
\* instruction of that rung aborts, and the abort is raised at that input
\* instruction itself: nothing is added to the code block, an output
\* instruction never raises the condition, and an input instruction is
\* accepted while no output instruction has been added since the last
\* end_rung (so of XIC a, OTE b, XIC a the first two are accepted and the
\* third aborts).
C12_InputAfterOutput ==
    [][LET lexical == {"Unknown token", "Illegal character in number"}
           late == "Input instruction appears after an output instruction"
           in_rung == stack # <<>> /\ stack[Len(stack)] = "Rung"
           outputs ==
               {i \in (rung_base.forwarded + 1)..Len(forwarded) :
                    forwarded[i].instruction \in OUTPUT_INSTRUCTIONS}
           scalar(name) ==
               /\ \E i \in 1..Len(tags) : tags[i].name = name
               /\ \A i \in 1..Len(tags) :
                      (/\ tags[i].name = name
                       /\ \A j \in 1..(i - 1) : tags[j].name # name) =>
                          tags[i].length = 0
           contact == /\ current_token.type \in INPUT_INSTRUCTIONS
                      /\ peek_token.type = "Identifier"
                      /\ scalar(peek_token.text)
                      /\ lexer.buf # <<>>
                      /\ lexer.buf[1].type = "NewLine"
           call == [instruction |-> current_token.type,
                    target |-> peek_token.text]
       IN  /\ (panic.kind = "" /\ ~done /\ in_rung /\ contact) =>
                  /\ outputs # {} =>
                         /\ panic'.kind \in {late} \cup lexical
                         /\ code_generator' = code_generator
                         /\ panic'.kind = late =>
                                forwarded' = Append(forwarded, call)
                  /\ ~code_generator.output_instruction_flag =>
                         /\ panic'.kind \in {""} \cup lexical
                         /\ panic'.kind = "" =>
                                forwarded' = Append(forwarded, call)
           /\ panic'.kind = late =>
                  /\ current_token.type \in INPUT_INSTRUCTIONS
                  /\ code_generator.output_instruction_flag
                  /\ code_generator' = code_generator]_vars

\* in a rung, XIC a and OTE b have been accepted and the XIC a after them
\* has aborted
C12_Witness ==
    /\ panic.kind = "Input instruction appears after an output instruction"
    /\ stack = <<"Task", "Routine", "Rung">>
    /\ rung_base.forwarded = 0
    /\ forwarded = <<[instruction |-> "Xic", target |-> <<"a">>],
                     [instruction |-> "Ote", target |-> <<"b">>],
                     [instruction |-> "Xic", target |-> <<"a">>]>>

\* C13: end_rung adds to the code block the line "if <rung variable>:"
\* and under it, one level deeper, the if-true statements of the output
\* instructions added since the last end_rung, in the order in which they
\* were added; then the line "else:" and under it the if-false statements
\* of the OTE instructions among them, in the order in which they were
\* added; a block without statements is left out, and both pending lists
\* are empty afterwards.
C13_PendingOrder ==
    [][LET g == code_generator
           calls == SubSeq(forwarded, pending_base + 1, Len(forwarded))
           is_output(c) == c.instruction \in OUTPUT_INSTRUCTIONS
           is_ote(c) == c.instruction = "Ote"
           if_true(c) ==
               CASE c.instruction = "Ret"  -> <<"r","e","t","u","r","n">>
                 [] c.instruction = "Jsr"  -> c.target \o <<"(",")">>
                 [] c.instruction = "Otl"  -> c.target \o <<" ","="," ","T","r","u","e">>
                 [] c.instruction = "Otu"  -> c.target \o <<" ","="," ","F","a","l","s","e">>
                 [] c.instruction = "Ote"  -> c.target \o <<" ","="," ","T","r","u","e">>
                 [] c.instruction = "Emit" ->
                        <<"E","m","i","t","E","v","e","n","t","(","'">> \o c.target \o <<"'",")">>
           if_false(c) == c.target \o <<" ","="," ","F","a","l","s","e">>
           level == g.indentation_level
           if_lines[k \in 0..Len(calls)] ==
               IF k = 0 THEN <<>>
               ELSE IF is_output(calls[k])
                   THEN if_lines[k - 1] \o Tabs(level + 1)
                            \o if_true(calls[k]) \o <<"\n">>
               ELSE if_lines[k - 1]
           else_lines[k \in 0..Len(calls)] ==
               IF k = 0 THEN <<>>
               ELSE IF is_ote(calls[k])
                   THEN else_lines[k - 1] \o Tabs(level + 1)
                            \o if_false(calls[k]) \o <<"\n">>
               ELSE else_lines[k - 1]
           if_block ==
               IF if_lines[Len(calls)] = <<>> THEN <<>>
               ELSE Tabs(level) \o <<"i","f"," ">> \o g.current_rung_name \o <<":","\n">>
                        \o if_lines[Len(calls)]
           else_block ==
               IF else_lines[Len(calls)] = <<>> THEN <<>>
               ELSE Tabs(level) \o <<"e","l","s","e",":","\n">> \o else_lines[Len(calls)]
       IN  (/\ panic.kind = "" /\ ~done
            /\ current_token.type = "EndRung"
            /\ stack # <<>> /\ stack[Len(stack)] = "Rung"
            /\ panic'.kind = "" \/ code_generator' # code_generator) =>
               /\ code_generator'.current_code_block =
                      g.current_code_block \o if_block \o else_block
               /\ code_generator'.if_block_instructions = <<>>
               /\ code_generator'.else_block_instructions = <<>>
               /\ code_generator'.indentation_level = level]_vars

\* the rung OTE a, OTE b has been ended: two statements under if and two
\* under else, each in the order of the instructions
C13_Witness ==
    /\ panic.kind = ""
    /\ stack = <<"Task", "Routine">>
    /\ code_generator.if_block_instructions = <<>>
    /\ code_generator.else_block_instructions = <<>>
    /\ code_generator.current_code_block =
           <<"d","e","f"," ","M","a","i","n","(",")",":","\n","\t","r","u","n","g","_","0","_","e","n","t","r","y"," ","="," ","T","r","u","e","\n","\t","i","f"," ","r","u","n","g","_","0","_","e","n","t","r","y",":","\n">>
               \o <<"\t","\t","a"," ","="," ","T","r","u","e","\n","\t","\t","b"," ","="," ","T","r","u","e","\n">>
               \o <<"\t","e","l","s","e",":","\n","\t","\t","a"," ","="," ","F","a","l","s","e","\n","\t","\t","b"," ","="," ","F","a","l","s","e","\n">>

\* C14: every OTE forwarded to the code generator adds one statement to
\* the if-true list (the target set true) and one to the if-false list
\* (the target set false); OTL, OTU, JSR, RET and EMIT add one statement
\* to the if-true list and none to the if-false list; and the text that
\* ends a rung has an "else:" line exactly when an OTE was forwarded
\* between the begin and the end of that rung.
C14_ElseIffOte ==
    [][LET g == code_generator
           call == forwarded'[Len(forwarded')]
           if_true(c) ==
               CASE c.instruction = "Ret"  -> <<"r","e","t","u","r","n">>
                 [] c.instruction = "Jsr"  -> c.target \o <<"(",")">>
                 [] c.instruction = "Otl"  -> c.target \o <<" ","="," ","T","r","u","e">>
                 [] c.instruction = "Otu"  -> c.target \o <<" ","="," ","F","a","l","s","e">>
                 [] c.instruction = "Ote"  -> c.target \o <<" ","="," ","T","r","u","e">>
                 [] c.instruction = "Emit" ->
                        <<"E","m","i","t","E","v","e","n","t","(","'">> \o c.target \o <<"'",")">>
           added == SubSeq(code_generator'.current_code_block,
                           Len(g.current_code_block) + 1,
                           Len(code_generator'.current_code_block))
           has_else ==
               \E k \in 1..(Len(added) - 5) :
                   SubSeq(added, k, k + 5) = <<"e","l","s","e",":","\n">>
           has_ote ==
               \E i \in (rung_base.forwarded + 1)..Len(forwarded) :
                   forwarded[i].instruction = "Ote"
       IN  /\ (/\ Len(forwarded') = Len(forwarded) + 1
               /\ call.instruction \in OUTPUT_INSTRUCTIONS) =>
                  /\ code_generator'.if_block_instructions =
                         <<if_true(call)>> \o g.if_block_instructions
                  /\ code_generator'.else_block_instructions =
                         IF call.instruction = "Ote"
                             THEN <<call.target \o <<" ","="," ","F","a","l","s","e">>>>
                                      \o g.else_block_instructions
                             ELSE g.else_block_instructions
           /\ (/\ panic.kind = "" /\ ~done
               /\ current_token.type = "EndRung"
               /\ stack # <<>> /\ stack[Len(stack)] = "Rung"
               /\ panic'.kind = "") =>
                  (has_else <=> has_ote)]_vars

\* OTE a was forwarded outside any rung; the rung after it held OTU a
\* alone and has been ended with an else block
C14_Witness ==
    /\ panic.kind = ""
    /\ stack = <<"Task", "Routine">>
    /\ rung_base.forwarded = 1
    /\ forwarded = <<[instruction |-> "Ote", target |-> <<"a">>],
                     [instruction |-> "Otu", target |-> <<"a">>]>>
    /\ code_generator.current_code_block =
           <<"d","e","f"," ","M","a","i","n","(",")",":","\n","\t","r","u","n","g","_","0","_","e","n","t","r","y"," ","="," ","T","r","u","e","\n","\t","i","f"," ","r","u","n","g","_","0","_","e","n","t","r","y",":","\n">>
               \o <<"\t","\t","a"," ","="," ","T","r","u","e","\n","\t","\t","a"," ","="," ","F","a","l","s","e","\n">>
               \o <<"\t","e","l","s","e",":","\n","\t","\t","a"," ","="," ","F","a","l","s","e","\n">>

\* C15: a rung to which no output instruction was forwarded between its
\* begin and its end is ended without an if block and without an else
\* block: end_rung adds nothing to the code block, whatever was forwarded
\* before the rung began.
C15_NoOutputNoBlock ==
    [][LET outputs ==
               {i \in (rung_base.forwarded + 1)..Len(forwarded) :
                    forwarded[i].instruction \in OUTPUT_INSTRUCTIONS}
       IN  (/\ panic.kind = "" /\ ~done
            /\ current_token.type = "EndRung"
            /\ stack # <<>> /\ stack[Len(stack)] = "Rung"
            /\ outputs = {}
            /\ panic'.kind = "") =>
               code_generator'.current_code_block =
                   code_generator.current_code_block]_vars

\* RET was forwarded outside any rung; the empty rung after it has been
\* ended with an if block
C15_Witness ==
    /\ panic.kind = ""
    /\ stack = <<"Task", "Routine">>
    /\ rung_base.forwarded = 1
    /\ forwarded = <<[instruction |-> "Ret", target |-> <<>>]>>
    /\ code_generator.current_code_block =
           <<"d","e","f"," ","M","a","i","n","(",")",":","\n","\t","r","u","n","g","_","0","_","e","n","t","r","y"," ","="," ","T","r","u","e","\n","\t","i","f"," ","r","u","n","g","_","0","_","e","n","t","r","y",":","\n">>
               \o <<"\t","\t","r","e","t","u","r","n","\n">>

C17_ContactRung ==
    [][LET g == code_generator
           calls == SubSeq(forwarded, rung_base.forwarded + 1,
                           Len(forwarded))
           name == g.current_rung_name
           line(c) ==
               Tabs(g.indentation_level) \o name
                   \o (IF c.instruction = "Xio" THEN <<" ","&","="," ","n","o","t"," ">>
                                                ELSE <<" ","&","="," ">>)
                   \o c.target \o <<"\n">>
           lines[k \in 0..Len(calls)] ==
               IF k = 0 THEN Tabs(g.indentation_level) \o name \o <<" ","="," ","T","r","u","e","\n">>
               ELSE lines[k - 1] \o line(calls[k])
       IN  (/\ panic.kind = "" /\ ~done
            /\ current_token.type = "EndRung"
            /\ stack # <<>> /\ stack[Len(stack)] = "Rung"
            /\ calls # <<>>
            /\ \A k \in 1..Len(calls) :
                   calls[k].instruction \in INPUT_INSTRUCTIONS) =>
               code_generator'.current_code_block =
                   SubSeq(g.current_code_block, 1, rung_base.code)
                       \o lines[Len(calls)]]_vars

\* the rung XIC a, XIO b has been ended
C17_Witness ==
    /\ panic.kind = ""
    /\ stack = <<"Task", "Routine">>
    /\ code_generator.current_code_block =
           <<"d","e","f"," ","M","a","i","n","(",")",":","\n","\t","r","u","n","g","_","0","_","e","n","t","r","y"," ","="," ","T","r","u","e","\n","\t","r","u","n","g","_","0","_","e","n","t","r","y"," ","&","="," ","a","\n">>
               \o <<"\t","r","u","n","g","_","0","_","e","n","t","r","y"," ","&","="," ","n","o","t"," ","b","\n">>

\* C18: a call of get_token skips blanks, tabs and carriage returns and
\* then a comment up to its end-of-line, and looks at the character c it
\* has come to.  It fails with "Illegal character in number" exactly when
\* c is a digit and the digits that begin there are followed by a "."
\* that is not followed by a digit; it fails with "Unknown token", naming
\* c, exactly when c is none of a digit, a letter, end-of-line, the end of
\* the source and = < > [ ] . ; in every other case it returns a token,
\* whose text begins with c.
C18_LexicalErrors ==
    [][LET src == scanner.source_code
           at(i) == IF i <= Len(src) THEN src[i] ELSE NUL
           here == scanner.current_position + 1
           blank(ch) == ch \in {" ", "\t", "\r"}
           first == CHOOSE i \in here..(Len(src) + 1) :
                        /\ ~blank(at(i))
                        /\ \A j \in here..(i - 1) : blank(at(j))
           cursor == IF at(first) # "#" THEN first
                     ELSE CHOOSE i \in first..Len(src) :
                              /\ at(i) = "\n"
                              /\ \A j \in first..(i - 1) : at(j) # "\n"
           c == at(cursor)
           last_digit == CHOOSE j \in cursor..Len(src) :
                             /\ \A k \in cursor..j : is_digit(at(k))
                             /\ ~is_digit(at(j + 1))
           illegal == /\ is_digit(c)
                      /\ at(last_digit + 1) = "."
                      /\ ~is_digit(at(last_digit + 2))
           known == \/ is_digit(c)
                    \/ is_alphabetic(c)
                    \/ c \in {"=", "<", ">", "[", "]", ".", "\n", NUL}
       IN  /\ illegal <=> panic'.kind = "Illegal character in number"
           /\ ~known <=> panic'.kind = "Unknown token"
           /\ ~known => panic'.arg = <<c>>
           /\ (known /\ ~illegal) =>
                  /\ panic'.kind = ""
                  /\ Len(scanned') = Len(scanned) + 1
                  /\ scanned'[Len(scanned')].text[1] = c
           /\ panic'.kind # "" => scanned' = scanned]_vars

\* the source of the one letter U+00E9, a letter of two bytes: the slice
\* that makes the identifier's text ends inside the letter
C18_Witness ==
    /\ panic.kind = "byte index is not a char boundary"
    /\ scanner.source_code = <<E_ACUTE, "\n">>
    /\ scanned = <<>>

\* C19: when the lexer has gone through a source without a NUL character,
\* as far as the first Eof, the tokens it returned
\* (or the panic! it ended in) are those of the same source with every
\* comment, and the blanks before it, taken out, so that each statement is
\* followed directly by its end-of-line; the last token before Eof is
\* always NewLine, whether or not the source ends in an end-of-line; and
\* the source with one more end-of-line at its end gives the same tokens
\* with one more NewLine before Eof.
C19_CommentAndLastLine ==
    LET pushed == scanner.source_code
        source_code == SubSeq(pushed, 1, Len(pushed) - 1)
        blank(ch) == ch \in {" ", "\t", "\r"}
        in_comment(i) ==
            \E j \in 1..i : /\ source_code[j] = "#"
                            /\ \A k \in j..i : source_code[k] # "\n"
        before_comment(i) ==
            \E j \in (i + 1)..Len(source_code) :
                /\ source_code[j] = "#"
                /\ ~in_comment(j - 1)
                /\ \A k \in i..(j - 1) : blank(source_code[k])
        plain[k \in 0..Len(source_code)] ==
            IF k = 0 THEN <<>>
            ELSE IF in_comment(k) \/ before_comment(k) THEN plain[k - 1]
            ELSE Append(plain[k - 1], source_code[k])
        ended(r) ==
            \/ r.panic.kind # ""
            \/ r.tokens # <<>> /\ r.tokens[Len(r.tokens)].type = "Eof"
        call(r) ==
            IF ended(r) THEN r
            ELSE [lexer |-> Lexer_get_token(r.lexer).lexer,
                  panic |-> Lexer_get_token(r.lexer).panic,
                  tokens |->
                      IF Lexer_get_token(r.lexer).panic.kind = ""
                          THEN Append(r.tokens,
                                      Lexer_get_token(r.lexer).token)
                          ELSE r.tokens]
        all(text) ==
            LET run[k \in 0..(Len(text) + 2)] ==
                    IF k = 0
                        THEN [lexer |-> Lexer_new(text), panic |-> NoPanic,
                              tokens |-> <<>>]
                        ELSE call(run[k - 1])
            IN  [tokens |-> run[Len(text) + 2].tokens,
                 panic |-> run[Len(text) + 2].panic]
        here == [tokens |-> scanned, panic |-> panic]
        n == Len(scanned)
        first_eof == /\ \A i \in 1..Len(source_code) : source_code[i] # NUL
                     /\ \A i \in 1..(n - 1) : scanned[i].type # "Eof"
    IN  (ended(here) /\ first_eof) =>
            /\ all(plain[Len(source_code)]) = here
            /\ panic.kind = "" =>
                   /\ n >= 2
                   /\ scanned[n - 1].type = "NewLine"
                   /\ all(pushed) =
                          [tokens |-> SubSeq(scanned, 1, n - 1)
                                          \o <<NL, Punct("Eof")>>,
                           panic |-> NoPanic]
            /\ panic.kind # "" => all(pushed) = here

\* the statement a followed by a comment that holds the letter U+00E9: the
\* identifier has been returned, and the call that skipped the comment
\* ended in the index out of bounds
C19_Witness ==
    /\ panic.kind = "index out of bounds"
    /\ scanner.source_code = <<"a"," ","#">> \o <<E_ACUTE, "\n">>
    /\ scanned = <<Ident(<<"a">>)>>

\* C20: when the statements have all been accepted, every scope has been
\* closed and both deferred checks pass, the one call of write_file leaves in the destination
\* exactly the text accumulated in the emitter, and the run ends without
\* a panic!.
C20_FlushPersists ==
    [][LET known(name, table) == \E j \in 1..Len(table) : table[j] = name
           declared(list, table) ==
               \A i \in 1..Len(list) : known(list[i], table)
       IN  (/\ panic.kind = "" /\ ~done
            /\ current_token.type = "Eof"
            /\ stack = <<>>
            /\ declared(emitted_events, events)
            /\ declared(jumps, routines)) =>
               /\ panic'.kind = ""
               /\ done'
               /\ file'.writes = 1
               /\ file'.written = emitter.compiled_code]_vars

\* write_file has opened the destination and has failed to write the text
\* of an accepted source to it
C20_Witness ==
    /\ panic.kind = "Couldn't write to"
    /\ file.opened = "ok"
    /\ file.writes = 1
    /\ file.written = <<>>
    /\ emitter.compiled_code # <<>>
    /\ stack = <<>>
\* C21: start_rung clears output_instruction_flag.  An input instruction on
\* a declared scalar tag that is the first instruction after the rung
\* began is accepted and forwarded, whatever was forwarded before the rung
\* began; a lexical abort in the token read ahead is the only other
\* outcome.
C21_RungStartsClear ==
    [][LET lexical == {"Unknown token", "Illegal character in number"}
           in_rung == stack # <<>> /\ stack[Len(stack)] = "Rung"
           scalar(name) ==
               /\ \E i \in 1..Len(tags) : tags[i].name = name
               /\ \A i \in 1..Len(tags) :
                      (/\ tags[i].name = name
                       /\ \A j \in 1..(i - 1) : tags[j].name # name) =>
                          tags[i].length = 0
           contact == /\ current_token.type \in INPUT_INSTRUCTIONS
                      /\ peek_token.type = "Identifier"
                      /\ scalar(peek_token.text)
                      /\ lexer.buf # <<>>
                      /\ lexer.buf[1].type = "NewLine"
           call == [instruction |-> current_token.type,
                    target |-> peek_token.text]
       IN  (/\ panic.kind = "" /\ ~done
            /\ in_rung
            /\ Len(forwarded) = rung_base.forwarded
            /\ contact) =>
               /\ panic'.kind \in {""} \cup lexical
               /\ panic'.kind = "" => forwarded' = Append(forwarded, call)]_vars

\* OTE a was forwarded before the rung began; the XIC a that opens the
\* rung has aborted as an input instruction after an output instruction
C21_Witness ==
    /\ panic.kind = "Input instruction appears after an output instruction"
    /\ stack = <<"Task", "Routine", "Rung">>
    /\ rung_base.forwarded = 1
    /\ forwarded = <<[instruction |-> "Ote", target |-> <<"a">>],
                     [instruction |-> "Xic", target |-> <<"a">>]>>

\* C22: an accepted ENDTASK hands to the emitter the code block followed by
\* the line "Main()", with no end-of-line of its own after it, and leaves
\* the code generator as CodeGenerator::new made it: empty code block,
\* indentation 0, rung counter 0, output_instruction_flag clear and both
\* pending lists empty, so that nothing of this task is rendered in a
\* later one.
C22_FinishResets ==
    [][(/\ panic.kind = "" /\ ~done
        /\ current_token.type = "EndTask"
        /\ panic'.kind = ""
        /\ stack' # stack) =>
           /\ emitter'.compiled_code =
                  emitter.compiled_code
                      \o code_generator.current_code_block
                      \o <<"M","a","i","n","(",")">> \o <<"\n">> \o <<"}","\n">>
           /\ code_generator'.current_code_block = <<>>
           /\ code_generator'.indentation_level = 0
           /\ code_generator'.rung_number = 0
           /\ ~code_generator'.output_instruction_flag
           /\ code_generator'.if_block_instructions = <<>>
           /\ code_generator'.else_block_instructions = <<>>]_vars

\* a task whose only instruction is a RET outside any rung has been
\* closed, and the statement of the RET is still pending with the flag set
C22_Witness ==
    /\ panic.kind = ""
    /\ stack = <<>>
    /\ forwarded = <<[instruction |-> "Ret", target |-> <<>>]>>
    /\ emitter.compiled_code =
           <<"T","A","S","K"," "," ","t","\n","{","\n","d","e","f"," ","M","a","i","n","(",")",":","\n","\t","p","a","s","s","\n","M","a","i","n","(",")","\n","}","\n">>
    /\ code_generator.current_code_block = <<>>
    /\ code_generator.output_instruction_flag
    /\ code_generator.if_block_instructions = <<<<"r","e","t","u","r","n">>>>

\* C23: the rung counter is 0 when a routine begins and advances on every
\* rung begun in it, named or not; an anonymous rung is named
\* rung_<k>_entry, k being the rungs begun before it in its routine, and a
\* named one rung_<name>_entry; the rung's text begins with the line that
\* sets this variable to True.
C23_RungNumbering ==
    LET g == code_generator
        top == IF stack = <<>> THEN "None" ELSE stack[Len(stack)]
        variable ==
            IF rung_base.name = <<>>
                THEN <<"r","u","n","g","_">> \o NumberText(routine_rungs - 1) \o <<"_","e","n","t","r","y">>
                ELSE <<"r","u","n","g","_">> \o rung_base.name \o <<"_","e","n","t","r","y">>
        line == Tabs(g.indentation_level) \o variable \o <<" ","="," ","T","r","u","e","\n">>
    IN  /\ (panic.kind = "" /\ top \in {"Routine", "Rung"}) =>
               g.rung_number = routine_rungs
        /\ (panic.kind = "" /\ top = "Rung") =>
               /\ routine_rungs >= 1
               /\ g.current_rung_name = variable
               /\ Len(g.current_code_block) >= rung_base.code + Len(line)
               /\ SubSeq(g.current_code_block, rung_base.code + 1,
                         rung_base.code + Len(line)) = line

\* in a routine the rung r has been ended and the anonymous rung after it
\* is rung_1_entry
C23_Witness ==
    /\ panic.kind = ""
    /\ stack = <<"Task", "Routine", "Rung">>
    /\ routine_rungs = 2
    /\ code_generator.current_code_block =
           <<"d","e","f"," ","M","a","i","n","(",")",":","\n","\t","r","u","n","g","_","r","_","e","n","t","r","y"," ","="," ","T","r","u","e","\n","\t","r","u","n","g","_","1","_","e","n","t","r","y"," ","="," ","T","r","u","e","\n">>

\* C24: an accepted ENDTASK appends to the emitter's text, in this order,
\* the code block, whose "def" lines are those of the routines declared in
\* the task, in the order of their declarations, one line "Main()" and the
\* closing marker "}".  No other step appends routine text, an entry call
\* or a closing marker, so the unindented "Main()" lines of the text are
\* as many as the tasks closed, and what a TAG statement of the task
\* emitted precedes the routines of the task.
C24_TaskBlock ==
    [][LET sink == emitter.compiled_code
           block == code_generator.current_code_block
           added == SubSeq(emitter'.compiled_code, Len(sink) + 1,
                           Len(emitter'.compiled_code))
           starts(text, k, line) ==
               /\ k + Len(line) - 1 <= Len(text)
               /\ SubSeq(text, k, k + Len(line) - 1) = line
               /\ k = 1 \/ text[k - 1] = "\n"
           entries(text) ==
               Cardinality({k \in 1..Len(text) : starts(text, k, <<"M","a","i","n","(",")","\n">>)})
           defs == {k \in 1..Len(block) : starts(block, k, <<"d","e","f"," ">>)}
           declared == SubSeq(routines, task_base + 1, Len(routines))
           accepted == /\ current_token.type = "EndTask"
                       /\ panic'.kind = ""
                       /\ stack' # stack
       IN  /\ Len(emitter'.compiled_code) >= Len(sink)
           /\ SubSeq(emitter'.compiled_code, 1, Len(sink)) = sink
           /\ accepted =>
                  /\ added = block \o <<"M","a","i","n","(",")","\n">> \o <<"}","\n">>
                  /\ Cardinality(defs) = Len(declared)
                  /\ \A k \in defs :
                         LET i == Cardinality({j \in defs : j <= k})
                         IN  starts(block, k,
                                    <<"d","e","f"," ">> \o declared[i] \o <<"(",")",":","\n">>)
                  /\ entries(emitter'.compiled_code) = entries(sink) + 1
           /\ ~accepted =>
                  /\ \A k \in 1..Len(added) : added[k] \notin {"(", "}", "\t"}
                  /\ entries(emitter'.compiled_code) = entries(sink)]_vars

\* a task with a tag declaration and the routines Main and a has been
\* closed
C24_Witness ==
    /\ panic.kind = ""
    /\ stack = <<>>
    /\ routines = <<<<"M","a","i","n">>, <<"a">>>>
    /\ emitter.compiled_code =
           <<"T","A","S","K"," "," ","t","\n","{","\n","T","A","G"," ","a"," ","T","R","U","E","\n","d","e","f"," ","M","a","i","n","(",")",":","\n","\t","p","a","s","s","\n">>
               \o <<"d","e","f"," ","a","(",")",":","\n","\t","p","a","s","s","\n","M","a","i","n","(",")","\n","}","\n">>

\* C25, as the specification states it: of the violations of a source the
\* one whose token comes first aborts the compilation.  A statement whose
\* keyword stands in the wrong scope aborts with the scope error, and an
\* instruction on an undeclared tag with the symbol error, whatever the
\* tokens after them are.
C25_SourceOrder ==
    [][LET top == IF stack = <<>> THEN "None" ELSE stack[Len(stack)]
           type == current_token.type
           scope_error ==
               CASE type = "Task" /\ stack # <<>> ->
                        "Tasks may not be inside of other structures"
                 [] type = "Routine" /\ top # "Task" ->
                        "Routines must be defined inside of a task"
                 [] type = "Rung" /\ top # "Routine" ->
                        "Rungs must be defined inside of a routine"
                 [] type = "EndRung" /\ top # "Rung" ->
                        "Missing matching RUNG"
                 [] type = "EndRoutine" /\ top # "Routine" ->
                        "Missing matching ENDRUNG"
                 [] type = "EndTask" /\ stack = <<>> ->
                        "Too many end statements"
                 [] type = "EndTask" /\ top \in {"Routine", "Rung"} ->
                        "Missing matching ENDROUTINE"
                 [] OTHER -> ""
           undeclared ==
               /\ type \in {"Xic", "Xio", "Ote", "Otl", "Otu"}
               /\ peek_token.type = "Identifier"
               /\ \A i \in 1..Len(tags) : tags[i].name # peek_token.text
       IN  (panic.kind = "" /\ ~done) =>
               /\ scope_error # "" => panic'.kind = scope_error
               /\ undeclared =>
                      panic'.kind = "Referencing tag before assignment"]_vars

\* C25, as the code has it: the lexer is two tokens ahead of the token
\* being consumed, and its error aborts as soon as the token is read.  A
\* scope error, raised once the keyword is consumed, and a symbol error,
\* raised once the operand is consumed, give way to a lexical error in the
\* second token after the keyword or the operand, and to no other; a
\* token that begins no statement aborts as an invalid statement whatever
\* follows it.
C25_LookaheadOrder ==
    [][LET top == IF stack = <<>> THEN "None" ELSE stack[Len(stack)]
           type == current_token.type
           lexical == {"Unknown token", "Illegal character in number"}
           scope_error ==
               CASE type = "Task" /\ stack # <<>> ->
                        "Tasks may not be inside of other structures"
                 [] type = "Routine" /\ top # "Task" ->
                        "Routines must be defined inside of a task"
                 [] type = "Rung" /\ top # "Routine" ->
                        "Rungs must be defined inside of a routine"
                 [] type = "EndRung" /\ top # "Rung" ->
                        "Missing matching RUNG"
                 [] type = "EndRoutine" /\ top # "Routine" ->
                        "Missing matching ENDRUNG"
                 [] type = "EndTask" /\ stack = <<>> ->
                        "Too many end statements"
                 [] type = "EndTask" /\ top \in {"Routine", "Rung"} ->
                        "Missing matching ENDROUTINE"
                 [] OTHER -> ""
           undeclared ==
               /\ type \in {"Xic", "Xio", "Ote", "Otl", "Otu"}
               /\ peek_token.type = "Identifier"
               /\ \A i \in 1..Len(tags) : tags[i].name # peek_token.text
           begins_statement ==
               type \in STATEMENT_INSTRUCTIONS \cup
                   {"Task", "Routine", "Rung", "EndRung", "EndRoutine",
                    "EndTask", "Tag", "Eof"}
       IN  (panic.kind = "" /\ ~done) =>
               /\ scope_error # "" =>
                      /\ panic'.kind \in {scope_error} \cup lexical
                      /\ panic'.kind \in lexical =>
                             /\ previous_token' = current_token
                             /\ current_token' = peek_token
                      /\ lexer.buf # <<>> =>
                             panic'.kind =
                                 IF lexer.buf[1].type = "panic"
                                     THEN lexer.buf[1].text[1]
                                     ELSE scope_error
               /\ undeclared =>
                      /\ panic'.kind \in
                             {"Referencing tag before assignment"}
                                 \cup lexical
                      /\ (Len(lexer.buf) >= 2 /\ lexer.buf[1].type # "panic") =>
                             panic'.kind =
                                 IF lexer.buf[2].type = "panic"
                                     THEN lexer.buf[2].text[1]
                                     ELSE "Referencing tag before assignment"
               /\ ~begins_statement => panic'.kind = "Invalid statement"]_vars

\* a ROUTINE outside any task was followed on the next line by a character
\* that begins no token: the lexical error has aborted the compilation
\* while the parser stood after the keyword
C25_Witness ==
    /\ panic.kind = "Unknown token"
    /\ previous_token.type = "Routine"
    /\ current_token.type = "NewLine"
    /\ stack = <<>>


----------------------------------------------------------------------------
\* C26: the PERIOD clause of a TASK statement takes every number literal the
\* lexer produces: a period of at least 20 (20.5 included) is accepted, a
\* period below 20 (10.50 included) ends with the period-below-limit
\* condition, and no other failure arises from the number.  The period is
\* compared with 20 on the digits before the decimal point.
C26_PeriodLiteral ==
    [][LET line == lexer.buf
           lexical == {"Unknown token", "Illegal character in number"}
           clause == /\ current_token.type = "Task"
                     /\ peek_token.type = "OpenAngle"
                     /\ Len(line) >= 6
                     /\ line[1].type = "Period"
                     /\ line[2].type = "Eq"
                     /\ line[3].type = "Number"
                     /\ line[4].type = "CloseAngle"
                     /\ line[5].type = "Identifier"
                     /\ line[6].type = "NewLine"
           text == line[3].text
           points == {i \in 1..Len(text) : text[i] = "."}
           whole == IF points = {} THEN text
                    ELSE SubSeq(text, 1, (CHOOSE i \in points : TRUE) - 1)
           zeros == Len(whole) - Len(StripZeros(whole))
           digits == Len(whole) - zeros
           at_least_20 == \/ digits >= 3
                          \/ /\ digits = 2
                             /\ DigitValue(whole[zeros + 1]) >= 2
       IN  (panic.kind = "" /\ ~done /\ clause /\ stack = <<>>) =>
               /\ at_least_20 => panic'.kind \in {""} \cup lexical
               /\ ~at_least_20 =>
                      panic'.kind = "Period below allowable limit"]_vars

\* a TASK statement whose period is 20.5 ended on the unwrap of the parse
C26_Witness ==
    /\ panic.kind = "called Result::unwrap() on an Err value"
    /\ previous_token = Num(<<"2","0",".","5">>)
    /\ stack = <<"Task">>

----------------------------------------------------------------------------
\* C27: every call of get_token ends by returning a token or in one of the
\* two lexical errors; a call that comes to a comment stops at the comment's
\* end-of-line and returns NewLine; and once Eof has been returned every
\* later call returns Eof.
C27_GetTokenTotal ==
    [][LET lexical == {"Unknown token", "Illegal character in number"}
           n == Len(scanned)
           after_eof == IF n = 0 THEN FALSE ELSE scanned[n].type = "Eof"
       IN  /\ panic'.kind \in {""} \cup lexical
           /\ panic'.kind = "" => Len(scanned') = n + 1
           /\ skip_whitespace(scanner).current_character = "#" =>
                  /\ panic'.kind = ""
                  /\ scanned'[n + 1] = NL
           /\ after_eof =>
                  /\ panic'.kind = ""
                  /\ scanned'[n + 1] = Punct("Eof")]_vars

\* the source of a NUL character and the letter a: Eof has been returned,
\* and the next call has returned the identifier
C27_Witness ==
    /\ panic.kind = ""
    /\ scanner.source_code = <<NUL>> \o <<"a","\n">>
    /\ scanned = <<Punct("Eof"), Ident(<<"a">>)>>

----------------------------------------------------------------------------
\* C28, as claimed: an instruction is forwarded to the code generator only
\* while a rung is the innermost open scope.
C28_RungScoped ==
    [][Len(forwarded') > Len(forwarded) =>
           IF stack = <<>> THEN FALSE ELSE stack[Len(stack)] = "Rung"]_vars

\* C28, as the code has it: an instruction statement is parsed without a
\* look at the scope stack.  Whatever the innermost scope, or with no scope
\* open, the statement leaves the stack as it is, an accepted instruction is
\* forwarded, and a RET followed by its end-of-line ends in no error of the
\* parser (a lexical error of a token read ahead apart).
C28_InstructionsAnyScope ==
    [][LET lexical == {"Unknown token", "Illegal character in number"}
           n == Len(forwarded)
       IN  (/\ panic.kind = "" /\ ~done
            /\ current_token.type \in STATEMENT_INSTRUCTIONS) =>
               /\ stack' = stack
               /\ panic'.kind = "" =>
                      /\ Len(forwarded') = n + 1
                      /\ SubSeq(forwarded', 1, n) = forwarded
                      /\ forwarded'[n + 1].instruction = current_token.type
               /\ (current_token.type = "Ret"
                       /\ peek_token.type = "NewLine") =>
                      panic'.kind \in {""} \cup lexical]_vars

\* a RET right after the TASK statement, with no routine and no rung open,
\* has been accepted and forwarded
C28_Witness ==
    /\ panic.kind = ""
    /\ stack = <<"Task">>
    /\ previous_token.type = "NewLine"
    /\ forwarded = <<[instruction |-> "Ret", target |-> <<>>]>>

----------------------------------------------------------------------------
\* C29, as claimed: when the file is written every opening brace of the
\* emitter's text has its closing marker, and the code generator holds no
\* routine text.
C29_BalancedBlocks ==
    file.writes = 1 =>
        LET code == emitter.compiled_code
            block == code_generator.current_code_block
            count(ch) == Cardinality({i \in 1..Len(code) : code[i] = ch})
        IN  /\ count("{") = count("}")
            /\ \A k \in 1..(Len(block) - 3) :
                   SubSeq(block, k, k + 3) # <<"d","e","f"," ">>

\* C29, as the code has it: when the file is written, the tasks that an
\* ENDTASK closed are balanced blocks, and a task still open at the end of
\* the source is written as its header, its opening brace and its TAG
\* lines: the closing marker is missing, no routine text follows the brace,
\* and the definitions of the routines begun in that task are still in the
\* code generator.  With no task open the code generator holds no routine
\* text.
C29_FlushedBlocks ==
    file.writes = 1 =>
        LET code == emitter.compiled_code
            block == code_generator.current_code_block
            count(ch) == Cardinality({i \in 1..Len(code) : code[i] = ch})
            last(ch) == IF count(ch) = 0 THEN 0
                        ELSE CHOOSE i \in 1..Len(code) :
                                 /\ code[i] = ch
                                 /\ \A j \in (i + 1)..Len(code) : code[j] # ch
            holds(text, line) ==
                \E k \in 1..(Len(text) - Len(line) + 1) :
                    SubSeq(text, k, k + Len(line) - 1) = line
        IN  /\ count("{") - count("}") = IF stack = <<>> THEN 0 ELSE 1
            /\ stack = <<>> => ~holds(block, <<"d","e","f"," ">>)
            /\ stack # <<>> =>
                   /\ last("{") > last("}")
                   /\ ~holds(SubSeq(code, last("{"), Len(code)), <<"d","e","f"," ">>)
                   /\ \A i \in (task_base + 1)..Len(routines) :
                          holds(block, <<"d","e","f"," ">> \o routines[i] \o <<"(",")",":","\n">>)

\* the file is written for a source that ends inside the routine Main of
\* its task: the sink ends after the opening brace and the routine is in
\* the code generator
C29_Witness ==
    /\ file.writes = 1
    /\ stack = <<"Task", "Routine">>
    /\ emitter.compiled_code = <<"T","A","S","K"," "," ","t","\n","{","\n">>
    /\ code_generator.current_code_block = <<"d","e","f"," ","M","a","i","n","(",")",":","\n">>

----------------------------------------------------------------------------
\* C30: a blank line, or a line that holds only a comment, is accepted
\* wherever it stands.  The parser sees such a line as a NewLine token; when
\* a statement is to begin and the current token is NewLine, the
\* compilation goes on without an error of the parser (a lexical error of
\* a token read ahead apart), and nothing is emitted for the line.
C30_BlankLinesAccepted ==
    [][(panic.kind = "" /\ ~done /\ current_token.type = "NewLine") =>
           /\ panic'.kind \in {"", "Unknown token",
                               "Illegal character in number"}
           /\ emitter'.compiled_code = emitter.compiled_code]_vars

\* the empty source: Lexer::new has pushed its end-of-line, the parser has
\* met the NewLine where a statement begins and has refused it
C30_Witness ==
    /\ panic.kind = "Invalid statement"
    /\ current_token.type = "NewLine"
    /\ peek_token.type = "Eof"
    /\ previous_token = TokenDefault
    /\ lexer.lines = 0
    /\ emitter.compiled_code = <<>>

====
